---- MODULE Spec2Model ----
(***************************************************************************)
(* Model of the instruction-grounding pipeline of the Sheets AI agent      *)
(* (src/ai_agent.py): the approximate column resolver fuzzy_match_column,  *)
(* the grounder ground_columns, the oracle-output parser and the stages of *)
(* SheetsAIAgent.execute.                                                  *)
(*                                                                         *)
(* Python strings are sequences of one-character strings, so that lower(), *)
(* strip(), substring containment and f-string formatting are computed.    *)
(* JSON values are tagged records; a Python dict is a function from its    *)
(* keys (the keys present are its DOMAIN).                                 *)
(***************************************************************************)
EXTENDS Integers, Sequences, FiniteSets, TLC

VARIABLES
    pc,           \* position of the running call
    headers,      \* the column list (actual_columns / headers), a sequence of strings
    wratio,       \* fuzz.WRatio of this build: wratio[t][c] for target t and column c
    target,       \* fuzzy_match_column's target argument
    ret,          \* what fuzzy_match_column returned or raised
    instruction,  \* the instruction dict (a JSON value)
    grounded,     \* outcome of ground_columns(instruction, headers)
    regrounded,   \* outcome of grounding the grounded instruction once more
    schema,       \* the header list as execute() read it (headers before any append)
    header_row,   \* execute()'s header_row argument (1-based)
    raw,          \* the text the oracle answered with
    num_rows,     \* len(all_vals)
    requests,     \* the calls sent to the spreadsheet service, in order
    result,       \* what execute() returned or raised, and where
    all_vals,     \* the rows execute() read from the sheet (a row is its cells)
    errors,       \* the HttpErrors the service answered calls of the dispatcher with
    row_indices,  \* delete_rows_batch's row_indices argument
    service       \* self.service is set: the agent holds an authenticated client

vars == <<pc, headers, wratio, target, ret, instruction, grounded, regrounded,
          schema, header_row, raw, num_rows, requests, result,
          all_vals, errors, row_indices, service>>

\* the variables execute() never touches while a function is checked alone
execVars == <<schema, header_row, raw, num_rows, requests, result,
              all_vals, errors, row_indices, service>>

(***************************************************************************)
(* Bounds                                                                  *)
(***************************************************************************)
MaxCols == 2      \* longest column list drawn
MaxList == 2      \* longest sort or rules list drawn
MaxHeaderRow == 2 \* largest header_row drawn
MaxRows == 3      \* most rows the sheet holds
MaxRowIndex == 5  \* largest row index handed to delete_rows_batch
MaxIndices == 3   \* longest row_indices list drawn

(***************************************************************************)
(* Python str operations                                                   *)
(***************************************************************************)
UpperChars == <<"A","B","C","D","E","F","G","H","I","J","K","L","M",
                "N","O","P","Q","R","S","T","U","V","W","X","Y","Z">>
LowerChars == <<"a","b","c","d","e","f","g","h","i","j","k","l","m",
                "n","o","p","q","r","s","t","u","v","w","x","y","z">>
DigitChars == <<"0","1","2","3","4","5","6","7","8","9">>
Whitespace == {" ", "\t", "\n"}

\* str.lower() on one character
LowerChar(ch) ==
    IF \E i \in 1..Len(UpperChars) : UpperChars[i] = ch
    THEN LowerChars[CHOOSE i \in 1..Len(UpperChars) : UpperChars[i] = ch]
    ELSE ch

\* str.lower()
Lower(s) == [i \in 1..Len(s) |-> LowerChar(s[i])]

\* a in b  (substring containment of Python str)
IsSubstr(a, b) ==
    \E i \in 0..(Len(b) - Len(a)) : SubSeq(b, i + 1, i + Len(a)) = a

\* str.strip(): leading and trailing whitespace removed
Strip(s) ==
    IF \A i \in 1..Len(s) : s[i] \in Whitespace
    THEN <<>>
    ELSE LET first == CHOOSE i \in 1..Len(s) :
                         /\ s[i] \notin Whitespace
                         /\ \A j \in 1..(i - 1) : s[j] \in Whitespace
             last  == CHOOSE i \in 1..Len(s) :
                         /\ s[i] \notin Whitespace
                         /\ \A j \in (i + 1)..Len(s) : s[j] \in Whitespace
         IN  SubSeq(s, first, last)

\* str(n) for an integer n >= 0
RECURSIVE IntToStr(_)
IntToStr(n) ==
    IF n < 10 THEN <<DigitChars[n + 1]>>
    ELSE IntToStr(n \div 10) \o <<DigitChars[(n % 10) + 1]>>

\* the digit a character spells
DigitVal(ch) == (CHOOSE i \in 1..Len(DigitChars) : DigitChars[i] = ch) - 1

IsDigits(s) ==
    s # <<>> /\ \A i \in 1..Len(s) : \E j \in 1..Len(DigitChars) : DigitChars[j] = s[i]

\* int(s) for a string of digits
RECURSIVE DigitsToInt(_)
DigitsToInt(s) ==
    IF s = <<>> THEN 0
    ELSE DigitsToInt(SubSeq(s, 1, Len(s) - 1)) * 10 + DigitVal(s[Len(s)])

\* float(s) for a str: a number is held in tenths.  Surrounding whitespace is
\* ignored; digits, or digits "." digit, parse (the other spellings float()
\* accepts, an exponent, a sign, inf and nan, are never drawn); anything else
\* is a ValueError.
ParseStripped(t, n) ==
    IF IsDigits(t) THEN [ok |-> TRUE, tenths |-> DigitsToInt(t) * 10]
    ELSE IF /\ n >= 3
            /\ t[n - 1] = "."
            /\ IsDigits(SubSeq(t, 1, n - 2))
            /\ IsDigits(<<t[n]>>)
    THEN [ok |-> TRUE, tenths |-> DigitsToInt(SubSeq(t, 1, n - 2)) * 10 + DigitVal(t[n])]
    ELSE [ok |-> FALSE, tenths |-> 0]

ParseFloat(s) == ParseStripped(Strip(s), Len(Strip(s)))

\* f"Column_{k}"
ColumnName(k) == <<"C","o","l","u","m","n","_">> \o IntToStr(k)

(***************************************************************************)
(* JSON values as json.loads produces them                                 *)
(***************************************************************************)
EmptyDict == <<>>
Null      == [k |-> "null", s |-> <<>>, n |-> 0, items |-> <<>>, d |-> EmptyDict]
Str(x)    == [k |-> "str",  s |-> x,    n |-> 0, items |-> <<>>, d |-> EmptyDict]
Num(x)    == [k |-> "num",  s |-> <<>>, n |-> x, items |-> <<>>, d |-> EmptyDict]
Bool(b)   == [k |-> "bool", s |-> <<>>, n |-> IF b THEN 1 ELSE 0,
              items |-> <<>>, d |-> EmptyDict]
List(xs)  == [k |-> "list", s |-> <<>>, n |-> 0, items |-> xs, d |-> EmptyDict]
Dict(f)   == [k |-> "dict", s |-> <<>>, n |-> 0, items |-> <<>>, d |-> f]

\* isinstance(v, str)
IsStr(v) == v.k = "str"

\* bool(v)
Truthy(v) ==
    CASE v.k = "null" -> FALSE
      [] v.k = "str"  -> v.s # <<>>
      [] v.k = "num"  -> v.n # 0
      [] v.k = "bool" -> v.n = 1
      [] v.k = "list" -> v.items # <<>>
      [] v.k = "dict" -> DOMAIN v.d # {}

\* v in columns, for a list of str
InColumns(v, columns) == IsStr(v) /\ \E i \in 1..Len(columns) : columns[i] = v.s

\* d[key] = v on a dict value
Put(dv, key, v) == Dict((key :> v) @@ dv.d)

\* key in d
Has(dv, key) == key \in DOMAIN dv.d

\* float(v) of a JSON value, in tenths; not ok: TypeError or ValueError
PyFloat(v) ==
    CASE v.k = "num"  -> [ok |-> TRUE, tenths |-> v.n * 10]
      [] v.k = "bool" -> [ok |-> TRUE, tenths |-> v.n * 10]
      [] v.k = "str"  -> ParseFloat(v.s)
      [] OTHER        -> [ok |-> FALSE, tenths |-> 0]

\* int(v) of a JSON value; not ok: TypeError or ValueError
PyInt(v) ==
    CASE v.k = "num"  -> [ok |-> TRUE, n |-> v.n]
      [] v.k = "bool" -> [ok |-> TRUE, n |-> v.n]
      [] v.k = "str"  -> IF IsDigits(Strip(v.s))
                         THEN [ok |-> TRUE, n |-> DigitsToInt(Strip(v.s))]
                         ELSE [ok |-> FALSE, n |-> 0]
      [] OTHER        -> [ok |-> FALSE, n |-> 0]

(***************************************************************************)
(* rapidfuzz: fuzz.WRatio and process.extractOne                           *)
(***************************************************************************)
Threshold == 60

\* the scores the model distinguishes: none, weak, exactly the threshold, full
ScoreLevels == {0, 25, 60, 100}

Chars(s) == {Lower(s)[i] : i \in 1..Len(s)}

\* a string of letters and digits only: one token, whatever the processor
IsAlnum(s) ==
    \A i \in 1..Len(s) :
        \E j \in 1..Len(LowerChars \o UpperChars \o DigitChars) :
            (LowerChars \o UpperChars \o DigitChars)[j] = s[i]

Occurrences(s, ch) == Cardinality({i \in 1..Len(s) : Lower(s)[i] = ch})

\* the characters t and c have in common, case folded, counted with repetition:
\* no common subsequence of the two is longer
RECURSIVE SharedIn(_, _, _)
SharedIn(S, t, c) ==
    IF S = {} THEN 0
    ELSE LET ch == CHOOSE x \in S : TRUE
             nt == Occurrences(t, ch)
             nc == Occurrences(c, ch)
         IN  (IF nt < nc THEN nt ELSE nc) + SharedIn(S \ {ch}, t, c)

Shared(t, c) == SharedIn(Chars(t) \cap Chars(c), t, c)

\* What WRatio cannot exceed.  For two single tokens whose lengths differ by a
\* factor below 1.5, WRatio is fuzz.ratio, 200 * lcs / (len(t) + len(c)) for the
\* longest common subsequence lcs; partial and token-set scoring, which may score
\* higher, come in only for longer or multi-token strings.
WRatioBound(t, c) ==
    LET longer == IF Len(t) > Len(c) THEN Len(t) ELSE Len(c)
        shorter == IF Len(t) > Len(c) THEN Len(c) ELSE Len(t)
    IN  IF IsAlnum(t) /\ IsAlnum(c) /\ 2 * longer < 3 * shorter
        THEN (200 * Shared(t, c)) \div (Len(t) + Len(c))
        ELSE 100

\* The values fuzz.WRatio(t, c) may take.  The scorer is a library outside the
\* repository; what is kept of it: 0 when either string is empty or the two share
\* no character (case folded), 100 for equal strings, below 100 for strings that
\* differ after case folding, and never above WRatioBound.  Strings equal up to
\* case score 100 when the build's default processor folds case and anything
\* below otherwise.
WRatioValues(t, c) ==
    IF t = <<>> \/ c = <<>> \/ Chars(t) \cap Chars(c) = {} THEN {0}
    ELSE IF t = c THEN {100}
    ELSE IF Lower(t) = Lower(c) THEN ScoreLevels
    ELSE {v \in ScoreLevels \ {100} : v <= WRatioBound(t, c)}

\* every scorer row for target t over the columns cs
RECURSIVE WRatioRows(_, _)
WRatioRows(t, cs) ==
    IF cs = {} THEN {<<>>}
    ELSE LET c == CHOOSE x \in cs : TRUE
         IN  {(c :> v) @@ f : v \in WRatioValues(t, c), f \in WRatioRows(t, cs \ {c})}

\* every scorer table over targets ts and columns cs
RECURSIVE WRatioTables(_, _)
WRatioTables(ts, cs) ==
    IF ts = {} THEN {<<>>}
    ELSE LET t == CHOOSE x \in ts : TRUE
         IN  {(t :> r) @@ w : r \in WRatioRows(t, cs), w \in WRatioTables(ts \ {t}, cs)}

NoMatch == [found |-> FALSE, choice |-> <<>>, score |-> 0]

\* process.extractOne(target, columns, scorer=fuzz.WRatio): the first column with
\* the highest score, None for no columns
extractOne(t, columns, w) ==
    IF columns = <<>> THEN NoMatch
    ELSE LET i == CHOOSE i \in 1..Len(columns) :
                    /\ \A j \in 1..Len(columns) : w[t][columns[j]] <= w[t][columns[i]]
                    /\ \A j \in 1..(i - 1) : w[t][columns[j]] < w[t][columns[i]]
         IN  [found |-> TRUE, choice |-> columns[i], score |-> w[t][columns[i]]]

(***************************************************************************)
(* fuzzy_match_column                                                      *)
(***************************************************************************)
Return(x)  == [exc |-> "none", val |-> x]
Raise(e)   == [exc |-> e, val |-> Null]

\* SubstrHits comparing the strings as they are, without folding case
SubstrHits_cased(t, columns) ==
    {i \in 1..Len(columns) :
        IsSubstr(t, columns[i]) \/ IsSubstr(columns[i], t)}

\* the substring fallback loop: first column c with
\* target_l in c.lower() or c.lower() in target_l
SubstrHits(t, columns) ==
    {i \in 1..Len(columns) :
        IsSubstr(Lower(t), Lower(columns[i])) \/ IsSubstr(Lower(columns[i]), Lower(t))}

Min(S) == CHOOSE x \in S : \A y \in S : x <= y

\* fuzzy_match_column with the threshold test written ">" instead of ">="
fuzzy_match_column_gt(tv, columns, w) ==
    IF columns = <<>> THEN Raise("ValueError")
    ELSE IF ~IsStr(tv) THEN Raise("TypeError")
    ELSE LET t == tv.s
             match == extractOne(t, columns, w)
         IN  IF match.found /\ match.score > Threshold THEN Return(Str(match.choice))
             ELSE IF SubstrHits(t, columns) # {}
                  THEN Return(Str(columns[Min(SubstrHits(t, columns))]))
             ELSE IF match.found THEN Return(Str(match.choice))
             ELSE Return(Str(columns[1]))

\* fuzzy_match_column giving the target back when neither the threshold nor the
\* substring test finds a column
fuzzy_match_column_giveup(tv, columns, w) ==
    IF columns = <<>> THEN Raise("ValueError")
    ELSE IF ~IsStr(tv) THEN Raise("TypeError")
    ELSE LET t == tv.s
             match == extractOne(t, columns, w)
         IN  IF match.found /\ match.score >= Threshold THEN Return(Str(match.choice))
             ELSE IF SubstrHits(t, columns) # {}
                  THEN Return(Str(columns[Min(SubstrHits(t, columns))]))
             ELSE Return(tv)

\* fuzzy_match_column answering an empty list with the target itself
fuzzy_match_column_default(tv, columns, w) ==
    IF columns = <<>> THEN Return(tv)
    ELSE IF ~IsStr(tv) THEN Raise("TypeError")
    ELSE LET t == tv.s
             match == extractOne(t, columns, w)
         IN  IF match.found /\ match.score >= Threshold THEN Return(Str(match.choice))
             ELSE IF SubstrHits(t, columns) # {}
                  THEN Return(Str(columns[Min(SubstrHits(t, columns))]))
             ELSE IF match.found THEN Return(Str(match.choice))
             ELSE Return(Str(columns[1]))

fuzzy_match_column(tv, columns, w) ==
    IF columns = <<>> THEN Raise("ValueError")
    ELSE IF ~IsStr(tv) THEN Raise("TypeError")
    ELSE LET t == tv.s
             match == extractOne(t, columns, w)
         IN  IF match.found /\ match.score >= Threshold THEN Return(Str(match.choice))
             ELSE IF SubstrHits(t, columns) # {}
                  THEN Return(Str(columns[Min(SubstrHits(t, columns))]))
             ELSE IF match.found THEN Return(Str(match.choice))
             ELSE Return(Str(columns[1]))

(***************************************************************************)
(* The action discriminants execute() dispatches on                        *)
(***************************************************************************)
act_sort == <<"s","o","r","t">>
act_multicolumn_sort ==
    <<"m","u","l","t","i","c","o","l","u","m","n","_","s","o","r","t">>
act_filter == <<"f","i","l","t","e","r">>
act_delete_rows == <<"d","e","l","e","t","e","_","r","o","w","s">>
act_remove_duplicates ==
    <<"r","e","m","o","v","e","_","d","u","p","l","i","c","a","t","e","s">>
act_formula == <<"f","o","r","m","u","l","a">>
act_color_row == <<"c","o","l","o","r","_","r","o","w">>
act_color_column == <<"c","o","l","o","r","_","c","o","l","u","m","n">>
act_color_range == <<"c","o","l","o","r","_","r","a","n","g","e">>
act_color_if == <<"c","o","l","o","r","_","i","f">>
act_color_multi == <<"c","o","l","o","r","_","m","u","l","t","i">>
act_add_column == <<"a","d","d","_","c","o","l","u","m","n">>
act_delete_column == <<"d","e","l","e","t","e","_","c","o","l","u","m","n">>
act_add_row == <<"a","d","d","_","r","o","w">>
act_delete_row == <<"d","e","l","e","t","e","_","r","o","w">>
act_move_column == <<"m","o","v","e","_","c","o","l","u","m","n">>
act_rename_column == <<"r","e","n","a","m","e","_","c","o","l","u","m","n">>
act_fill_down == <<"f","i","l","l","_","d","o","w","n">>
act_add_serial_no == <<"a","d","d","_","s","e","r","i","a","l","_","n","o">>
act_freeze == <<"f","r","e","e","z","e">>
act_merge_cells == <<"m","e","r","g","e","_","c","e","l","l","s">>
act_copy_column == <<"c","o","p","y","_","c","o","l","u","m","n">>
act_copy_row == <<"c","o","p","y","_","r","o","w">>
act_move_row == <<"m","o","v","e","_","r","o","w">>
act_clear_formatting ==
    <<"c","l","e","a","r","_","f","o","r","m","a","t","t","i","n","g">>
act_color_number_range ==
    <<"c","o","l","o","r","_","n","u","m","b","e","r","_","r","a","n","g","e">>
act_add_column_with_serial ==
    <<"a","d","d","_","c","o","l","u","m","n","_","w","i","t","h","_","s","e","r","i","a","l">>

\* every discriminant the if/elif chain of execute() tests for
KnownActions ==
    {act_sort, act_multicolumn_sort, act_filter, act_delete_rows,
     act_remove_duplicates, act_formula, act_color_row, act_color_column,
     act_color_range, act_color_if, act_color_multi, act_add_column,
     act_delete_column, act_add_row, act_delete_row, act_move_column,
     act_rename_column, act_fill_down, act_add_serial_no, act_freeze,
     act_merge_cells, act_copy_column, act_copy_row, act_move_row,
     act_clear_formatting, act_color_number_range, act_add_column_with_serial}

(***************************************************************************)
(* ground_columns                                                          *)
(***************************************************************************)
\* run the next statement unless the previous one raised
Then(r, F(_)) == IF r.exc # "none" THEN r ELSE F(r.val)

\* one pass of the loop over simple_keys = ["column", "old_name", "from", "to"]
\* GroundSimpleKey without the exemption of "to"
GroundSimpleKey_to(ins, key, columns, w) ==
    IF /\ Has(ins, key)
       /\ IsStr(ins.d[key])
       /\ ~InColumns(ins.d[key], columns)
    THEN LET r == fuzzy_match_column(ins.d[key], columns, w)
         IN  IF r.exc # "none" THEN r ELSE Return(Put(ins, key, r.val))
    ELSE Return(ins)

GroundSimpleKey(ins, key, columns, w) ==
    IF /\ Has(ins, key)
       /\ IsStr(ins.d[key])
       /\ ~InColumns(ins.d[key], columns)
       /\ key # "to"
    THEN LET r == fuzzy_match_column(ins.d[key], columns, w)
         IN  IF r.exc # "none" THEN r ELSE Return(Put(ins, key, r.val))
    ELSE Return(ins)

GroundSimpleKeys(ins, columns, w) ==
    Then(Then(Then(GroundSimpleKey(ins, "column", columns, w),
                   LAMBDA a : GroundSimpleKey(a, "old_name", columns, w)),
              LAMBDA b : GroundSimpleKey(b, "from", columns, w)),
         LAMBDA c : GroundSimpleKey(c, "to", columns, w))

\* the "target_column" block: a missing or blank target becomes a new column
GroundTarget(ins, columns, w) ==
    IF ~Has(ins, "target_column") THEN Return(ins)
    ELSE LET tc == ins.d["target_column"]
             next_index == Len(columns)
             synth == Put(Put(ins, "target_column", Str(ColumnName(next_index + 1))),
                          "_auto_new_column", Num(next_index))
         IN  IF ~Truthy(tc) THEN Return(synth)
             ELSE IF ~IsStr(tc) THEN Raise("AttributeError")
             ELSE IF Strip(tc.s) = <<>> THEN Return(synth)
             ELSE IF ~InColumns(tc, columns)
                  THEN LET r == fuzzy_match_column(tc, columns, w)
                       IN  IF r.exc # "none" THEN r
                           ELSE Return(Put(ins, "target_column", r.val))
             ELSE Return(ins)

\* dict.get(key) with default None
Get(dv, key) == IF Has(dv, key) THEN dv.d[key] ELSE Null

\* the loop over instruction.get("sort", []) from entry i on; done holds the
\* entries already passed
RECURSIVE GroundSortSpecs(_, _, _, _, _)
GroundSortSpecs(items, i, done, columns, w) ==
    IF i > Len(items) THEN Return(List(done))
    ELSE LET sort_spec == items[i]
         IN  IF sort_spec.k # "dict" THEN Raise("AttributeError")
             ELSE IF IsStr(Get(sort_spec, "column"))
                     /\ ~InColumns(sort_spec.d["column"], columns)
                  THEN LET r == fuzzy_match_column(sort_spec.d["column"], columns, w)
                       IN  IF r.exc # "none" THEN r
                           ELSE GroundSortSpecs(items, i + 1,
                                    Append(done, Put(sort_spec, "column", r.val)),
                                    columns, w)
             ELSE GroundSortSpecs(items, i + 1, Append(done, sort_spec), columns, w)

\* GroundMultiSort that empties the sort list
GroundMultiSort_empty(ins, columns, w) ==
    IF Get(ins, "action") = Str(act_multicolumn_sort) /\ Has(ins, "sort")
    THEN Return(Put(ins, "sort", List(<<>>)))
    ELSE Return(ins)

GroundMultiSort(ins, columns, w) ==
    IF Get(ins, "action") # Str(act_multicolumn_sort) THEN Return(ins)
    ELSE IF ~Has(ins, "sort") THEN Return(ins)
    ELSE LET sv == ins.d["sort"]
         IN  IF sv.k = "list"
             THEN LET r == GroundSortSpecs(sv.items, 1, <<>>, columns, w)
                  IN  IF r.exc # "none" THEN r ELSE Return(Put(ins, "sort", r.val))
             ELSE IF sv.k \in {"str", "dict"} /\ ~Truthy(sv) THEN Return(ins)
             ELSE IF sv.k \in {"str", "dict"} THEN Raise("AttributeError")
             ELSE Raise("TypeError")

\* the loop over instruction["rules"] from entry i on
RECURSIVE GroundRules(_, _, _, _, _)
GroundRules(items, i, done, columns, w) ==
    IF i > Len(items) THEN Return(List(done))
    ELSE LET r == items[i]
         IN  IF r.k = "dict" /\ Has(r, "column") /\ ~InColumns(r.d["column"], columns)
             THEN LET m == fuzzy_match_column(r.d["column"], columns, w)
                  IN  IF m.exc # "none" THEN m
                      ELSE GroundRules(items, i + 1,
                               Append(done, Put(r, "column", m.val)), columns, w)
             ELSE GroundRules(items, i + 1, Append(done, r), columns, w)

\* GroundRulesList that forgets the nested rules
GroundRulesList_skip(ins, columns, w) == Return(ins)

GroundRulesList(ins, columns, w) ==
    IF Has(ins, "rules") /\ ins.d["rules"].k = "list"
    THEN LET r == GroundRules(ins.d["rules"].items, 1, <<>>, columns, w)
         IN  IF r.exc # "none" THEN r ELSE Return(Put(ins, "rules", r.val))
    ELSE Return(ins)

\* ground_columns(instruction, actual_columns).  The key tests of a value that
\* is no dict: a list or a str answers "key in instruction" (a str by substring,
\* never true of the strings drawn here) and fails at instruction.get; a number,
\* a boolean or None fails at the first "in".
ground_columns(ins, columns, w) ==
    IF ins.k \in {"list", "str"} THEN Raise("AttributeError")
    ELSE IF ins.k # "dict" THEN Raise("TypeError")
    ELSE Then(Then(Then(GroundSimpleKeys(ins, columns, w),
                        LAMBDA a : GroundTarget(a, columns, w)),
                   LAMBDA b : GroundMultiSort(b, columns, w)),
              LAMBDA c : GroundRulesList(c, columns, w))

(***************************************************************************)
(* Strings the inputs are drawn from                                       *)
(***************************************************************************)
s_cgpa == <<"c","g","p","a">>
s_CGPA == <<"C","G","P","A">>
s_Name == <<"N","a","m","e">>
s_Na   == <<"N","a">>
s_zz   == <<"z","z">>
s_blank == <<" ">>
s_formula == <<"=","B","2">>
s_gt == <<">">>
s_lt == <<"<">>
s_between == <<"b","e","t","w","e","e","n">>
s_green == <<"g","r","e","e","n">>
s_yellow == <<"y","e","l","l","o","w">>
s_red == <<"r","e","d">>
s_range == <<"A","2",":","C","1","0">>
s_column == <<"A","1",":","A","5">>
s_C == <<"C">>
s_blue == <<"b","l","u","e">>
s_orange == <<"o","r","a","n","g","e">>
s_purple == <<"p","u","r","p","l","e">>
s_pink == <<"p","i","n","k">>
s_cyan == <<"c","y","a","n">>
s_gray == <<"g","r","a","y">>
s_lightblue == <<"l","i","g","h","t","b","l","u","e">>
s_teal == <<"t","e","a","l">>
s_Red == <<"R","e","d">>
S_MERGE_ALL == <<"M","E","R","G","E","_","A","L","L">>
S_MERGE_ROWS == <<"M","E","R","G","E","_","R","O","W","S">>

\* header names: ordinary names, one contained in another, and the name the
\* grounder would synthesize for the longest column list
HeaderNames == {s_CGPA, s_cgpa, s_Name, s_Na, <<>>, ColumnName(MaxCols + 1)}

\* reference strings an oracle may supply
RefStrings == {<<>>, s_blank, s_cgpa, s_CGPA, s_Name, s_Na, s_zz, ColumnName(MaxCols + 1)}

SeqsUpTo(S, n) == UNION {[1..m -> S] : m \in 0..n}

ColumnLists == SeqsUpTo(HeaderNames, MaxCols)

Range(f) == {f[i] : i \in DOMAIN f}

NoResult == [exc |-> "none", val |-> Null, at |-> "running"]

\* execute() is not running
ExecIdle ==
    /\ schema = <<>>
    /\ header_row = 1
    /\ raw = <<>>
    /\ num_rows = 0
    /\ requests = <<>>
    /\ result = NoResult
    /\ all_vals = <<>>
    /\ errors = <<>>
    /\ row_indices = <<>>
    /\ service = FALSE

(***************************************************************************)
(* SpecResolve: fuzzy_match_column applied to drawn inputs                 *)
(***************************************************************************)
ResolveInit ==
    /\ pc = "call"
    /\ headers \in ColumnLists
    /\ target \in {Str(s) : s \in RefStrings}
    /\ wratio \in WRatioTables({target.s}, Range(headers))
    /\ ret = Return(Null)
    /\ instruction = Null
    /\ grounded = Return(Null)
    /\ regrounded = Return(Null)
    /\ ExecIdle

Resolve ==
    /\ pc = "call"
    /\ ret' = fuzzy_match_column(target, headers, wratio)
    /\ pc' = "return"
    /\ UNCHANGED <<headers, wratio, target, instruction, grounded, regrounded, execVars>>

ResolveNext == Resolve

SpecResolve == ResolveInit /\ [][ResolveNext]_vars

(***************************************************************************)
(* SpecGround: ground_columns applied to drawn instructions, then applied  *)
(* once more to its own result                                             *)
(***************************************************************************)
Rec(action, f) == Dict(("action" :> Str(action)) @@ f)

\* names an oracle may give a reference field
GroundRefs == {Str(s) : s \in {<<>>, s_blank, s_cgpa, s_Name, s_zz}}

\* names for columns that may not exist yet
NewNames == {Str(s_Name), Str(s_zz), Str(s_cgpa)}

\* entries of a nested reference list
ListRefs == {Str(s_cgpa), Str(s_Name)}

GroundHeaderNames == {s_CGPA, s_Name, ColumnName(MaxCols + 1)}

GroundColumnLists == SeqsUpTo(GroundHeaderNames, MaxCols)

\* values an oracle may put where a name is expected without being a string
NonStrings == {Null, Num(5)}

ListEntries ==
    {Dict(("column" :> c) @@ ("ascending" :> Bool(FALSE))) : c \in ListRefs \cup {Num(5)}}

RefLists == {List(xs) : xs \in SeqsUpTo(ListEntries, MaxList)}

\* the rules of the prompt's COLOR NUMBER RANGE format: they carry no column
NumberRules ==
    <<Dict(("operator" :> Str(s_gt)) @@ ("value" :> Num(9)) @@ ("color" :> Str(s_green))),
      Dict(("operator" :> Str(s_between)) @@ ("min" :> Num(8)) @@ ("max" :> Num(9))
           @@ ("color" :> Str(s_yellow)))>>

GroundInputs ==
    {Rec(act_sort, ("column" :> c) @@ ("ascending" :> Bool(FALSE))) :
        c \in GroundRefs \cup NonStrings}
    \cup {Rec(act_rename_column, ("old_name" :> c) @@ ("new_name" :> x)) :
        c \in GroundRefs, x \in NewNames}
    \cup {Rec(act_copy_column, ("from" :> c) @@ ("to" :> x)) :
        c \in GroundRefs, x \in NewNames}
    \cup {Rec(act_formula, ("target_column" :> c) @@ ("formula" :> Str(s_formula))) :
        c \in GroundRefs \cup NonStrings}
    \cup {Rec(act_multicolumn_sort, ("sort" :> l)) : l \in RefLists}
    \cup {Rec(act_color_multi, ("rules" :> l)) : l \in RefLists}
    \cup {Rec(a, ("column_name" :> x) @@ ("position" :> Num(0))) :
        a \in {act_add_column, act_add_serial_no, act_add_column_with_serial},
        x \in NewNames}
    \cup {Rec(a, ("column" :> c) @@ ("operator" :> Str(s_gt)) @@ ("value" :> Num(8))) :
        a \in {act_filter, act_delete_rows}, c \in {Str(s_cgpa), Str(s_Name)}}
    \cup {Rec(act_color_number_range, ("column" :> c) @@ ("rules" :> List(NumberRules))) :
        c \in {Str(s_cgpa), Str(s_Name)}}
    \cup {Rec(act_color_row, ("row" :> Num(5)) @@ ("color" :> Str(s_yellow))),
          Rec(act_color_range, ("range" :> Str(s_range)) @@ ("color" :> Str(s_red)))}

\* simple_keys of ground_columns
simple_keys == {"column", "old_name", "from", "to"}

\* the keys whose value ground_columns hands to the resolver
RefKeys == {"column", "old_name", "from", "target_column"}

StrsAt(dv, keys) == {dv.d[key].s : key \in {x \in keys \cap DOMAIN dv.d : IsStr(dv.d[x])}}

ItemsOf(dv, key) ==
    IF Has(dv, key) /\ dv.d[key].k = "list" THEN Range(dv.d[key].items) ELSE {}

\* the targets the resolver can be called with while grounding ins, and grounding
\* the result again
RefTargets(ins, columns) ==
    IF ins.k # "dict" THEN {}
    ELSE StrsAt(ins, simple_keys \cup {"target_column"})
         \cup UNION {StrsAt(e, {"column"}) : e \in {x \in ItemsOf(ins, "sort") : x.k = "dict"}}
         \cup UNION {StrsAt(e, {"column"}) : e \in {x \in ItemsOf(ins, "rules") : x.k = "dict"}}
         \cup (IF Has(ins, "target_column") THEN {ColumnName(Len(columns) + 1)} ELSE {})

GroundInit ==
    /\ pc = "call"
    /\ headers \in GroundColumnLists
    /\ instruction \in GroundInputs
    /\ wratio \in WRatioTables(RefTargets(instruction, headers), Range(headers))
    /\ target = Null
    /\ ret = Return(Null)
    /\ grounded = Return(Null)
    /\ regrounded = Return(Null)
    /\ ExecIdle

Ground ==
    /\ pc = "call"
    /\ grounded' = ground_columns(instruction, headers, wratio)
    /\ pc' = "grounded"
    /\ UNCHANGED <<headers, wratio, target, ret, instruction, regrounded, execVars>>

Reground ==
    /\ pc = "grounded"
    /\ grounded.exc = "none"
    /\ regrounded' = ground_columns(grounded.val, headers, wratio)
    /\ pc' = "regrounded"
    /\ UNCHANGED <<headers, wratio, target, ret, instruction, grounded, execVars>>

GroundNext == Ground \/ Reground

SpecGround == GroundInit /\ [][GroundNext]_vars

(***************************************************************************)
(* String literals of the source                                           *)
(***************************************************************************)
S_ERROR_KEY == <<"_","e","r","r","o","r">>
S_SUCCESS == <<"s","u","c","c","e","s","s">>
S_ERROR == <<"e","r","r","o","r">>
S_FAILED_TO_PARSE ==
    <<"F","a","i","l","e","d"," ","t","o"," ","p","a","r","s","e"," ","i","n","s","t","r","u","c","t","i","o","n">>
S_UNKNOWN_ACTION == <<"U","n","k","n","o","w","n"," ","a","c","t","i","o","n",":"," ">>
S_NONE == <<"N","o","n","e">>
S_TRUE == <<"T","r","u","e">>
S_FALSE == <<"F","a","l","s","e">>
\* repr of a list or a dict, not spelled out
S_REPR == <<"[",".",".",".","]">>
\* str(e) of the JSONDecodeError, not spelled out
S_DECODE_ERROR == <<"E","x","p","e","c","t","i","n","g"," ","v","a","l","u","e">>
\* a run of prose in the oracle's answer
S_PROSE == <<"S","u","r","e","!"," ","s","o","r","t"," ","b","y"," ","C","G","P","A">>
\* an action name execute() does not know
S_EXPLODE == <<"e","x","p","l","o","d","e">>

(***************************************************************************)
(* The oracle's text and parse_instruction_llm                             *)
(*                                                                         *)
(* A text is a sequence of tokens: a code fence with or without the json   *)
(* tag, whitespace, a run of prose, or one JSON document (held decoded).   *)
(***************************************************************************)
Tok(kind) == [k |-> kind, s |-> <<>>, n |-> 0, items |-> <<>>, d |-> EmptyDict]
FenceJson == Tok("fence_json")
Fence     == Tok("fence")
Ws        == Tok("ws")
Prose     == Str(S_PROSE)
Doc(v)    == [k |-> "doc", s |-> <<>>, n |-> 0, items |-> <<v>>, d |-> EmptyDict]

\* a Python str holding the text toks
Text(toks) == [k |-> "text", s |-> <<>>, n |-> 0, items |-> toks, d |-> EmptyDict]

\* raw.replace("```json", "").replace("```", "")
RemoveFences(toks) == SelectSeq(toks, LAMBDA t : t.k \notin {"fence_json", "fence"})

\* raw.strip() on a token sequence
StripWs(toks) ==
    IF \A i \in 1..Len(toks) : toks[i].k = "ws" THEN <<>>
    ELSE LET first == CHOOSE i \in 1..Len(toks) :
                         /\ toks[i].k # "ws"
                         /\ \A j \in 1..(i - 1) : toks[j].k = "ws"
             last  == CHOOSE i \in 1..Len(toks) :
                         /\ toks[i].k # "ws"
                         /\ \A j \in (i + 1)..Len(toks) : toks[j].k = "ws"
         IN  SubSeq(toks, first, last)

CleanRaw(toks) == StripWs(RemoveFences(toks))

\* json.loads(raw) succeeds on exactly one JSON document
Decodes(toks) == Len(toks) = 1 /\ toks[1].k = "doc"

\* parse_instruction_llm that reports the failure without the text
parse_instruction_llm_noraw(toks) ==
    LET cleaned == CleanRaw(toks)
    IN  IF Decodes(cleaned) THEN cleaned[1].items[1]
        ELSE Dict(("_error" :> Str(S_DECODE_ERROR)))

\* lines 349-355: the decoded value, or {"_raw": raw, "_error": str(e)}
parse_instruction_llm(toks) ==
    LET cleaned == CleanRaw(toks)
    IN  IF Decodes(cleaned) THEN cleaned[1].items[1]
        ELSE Dict(("_raw" :> Text(cleaned)) @@ ("_error" :> Str(S_DECODE_ERROR)))

(***************************************************************************)
(* Helpers of the dispatcher                                               *)
(***************************************************************************)
\* index_to_col_letter: 0-based index -> column letter(s)
RECURSIVE ColLetters(_)
ColLetters(index) ==
    IF index <= 0 THEN <<>>
    ELSE ColLetters((index - 1) \div 26) \o <<UpperChars[((index - 1) % 26) + 1]>>

index_to_col_letter(index) == ColLetters(index + 1)

\* list.index(v): the first 0-based position of v, ValueError when absent
ListIndex(columns, v) ==
    IF InColumns(v, columns)
    THEN Return(Num(Min({i \in 1..Len(columns) : columns[i] = v.s}) - 1))
    ELSE Raise("ValueError")

\* str(v) as an f-string shows it
PyStr(v) ==
    CASE v.k = "str"  -> v.s
      [] v.k = "null" -> S_NONE
      [] v.k = "num"  -> IntToStr(v.n)
      [] v.k = "bool" -> IF v.n = 1 THEN S_TRUE ELSE S_FALSE
      [] OTHER        -> S_REPR

\* service.spreadsheets().batchUpdate(body={"requests": reqs})
BatchUpdate(reqs) == [api |-> "batchUpdate", reqs |-> reqs]

\* service.spreadsheets().values().update(range=f"{sheet_name}!{col}{row}...",
\* body={"values": values})
ValuesUpdate(col, row, values) ==
    [api |-> "values.update", col |-> col, row |-> row, values |-> values]

\* service.spreadsheets().values().get(range=f"{sheet_name}!{col}{row}")
ValuesGet(col, row) == [api |-> "values.get", col |-> col, row |-> row]

\* add_column: one insertDimension of one column at index
add_column(index) ==
    BatchUpdate(<<[req |-> "insertDimension", dimension |-> "COLUMNS",
                   startIndex |-> index, endIndex |-> index + 1]>>)

\* apply_sort over the sorted column alone
apply_sort_one_column(col_index, start_row, end_row, num_cols, ascending) ==
    BatchUpdate(<<[req |-> "sortRange",
                   startRowIndex |-> start_row, endRowIndex |-> end_row,
                   startColumnIndex |-> col_index, endColumnIndex |-> col_index + 1,
                   sortSpecs |-> <<[dimensionIndex |-> col_index,
                                    sortOrder |-> IF Truthy(ascending)
                                                  THEN "ASCENDING"
                                                  ELSE "DESCENDING"]>>]>>)

\* apply_sort: one sortRange over rows start_row..end_row and columns 0..num_cols
apply_sort(col_index, start_row, end_row, num_cols, ascending) ==
    BatchUpdate(<<[req |-> "sortRange",
                   startRowIndex |-> start_row, endRowIndex |-> end_row,
                   startColumnIndex |-> 0, endColumnIndex |-> num_cols,
                   sortSpecs |-> <<[dimensionIndex |-> col_index,
                                    sortOrder |-> IF Truthy(ascending)
                                                  THEN "ASCENDING"
                                                  ELSE "DESCENDING"]>>]>>)

\* fill_down_column: the calls it makes; src is what the read of the first data
\* cell gives back (Null for an empty answer)
fill_down_column(col_index, hrow, nrows, src) ==
    IF nrows <= hrow + 1 THEN <<>>
    ELSE LET col_letter == index_to_col_letter(col_index)
             first_data_row == hrow + 1
             target_start_row == first_data_row + 1
         IN  IF src = Null THEN <<ValuesGet(col_letter, first_data_row)>>
             ELSE IF target_start_row > nrows THEN <<ValuesGet(col_letter, first_data_row)>>
             ELSE <<ValuesGet(col_letter, first_data_row),
                    ValuesUpdate(col_letter, target_start_row,
                                 [i \in 1..(nrows - target_start_row + 1) |-> src])>>

\* apply_multi_sort: one sortRange over rows start_row..end_row and columns
\* 0..num_cols, its keys in the order of sort_specs
apply_multi_sort(sort_specs, start_row, end_row, num_cols) ==
    BatchUpdate(<<[req |-> "sortRange",
                   startRowIndex |-> start_row, endRowIndex |-> end_row,
                   startColumnIndex |-> 0, endColumnIndex |-> num_cols,
                   sortSpecs |-> [i \in 1..Len(sort_specs) |->
                                    [dimensionIndex |-> sort_specs[i].col_index,
                                     sortOrder |-> IF Truthy(sort_specs[i].ascending)
                                                   THEN "ASCENDING"
                                                   ELSE "DESCENDING"]]]>>)

\* remove_duplicates: one deleteDuplicates compared on column col_index
remove_duplicates(col_index) ==
    BatchUpdate(<<[req |-> "deleteDuplicates",
                   startIndex |-> col_index, endIndex |-> col_index + 1]>>)

\* unmerge_all: one unmergeCells over the sheet
unmerge_all == BatchUpdate(<<[req |-> "unmergeCells"]>>)

\* sorted(xs, reverse=True) for a list of int: insertion into a descending list
RECURSIVE InsertDescending(_, _)
InsertDescending(x, xs) ==
    IF xs = <<>> THEN <<x>>
    ELSE IF x > Head(xs) THEN <<x>> \o xs
    ELSE <<Head(xs)>> \o InsertDescending(x, Tail(xs))

RECURSIVE SortedReverse(_)
SortedReverse(xs) ==
    IF xs = <<>> THEN <<>>
    ELSE InsertDescending(xs[Len(xs)], SortedReverse(SubSeq(xs, 1, Len(xs) - 1)))

DeleteDimension(idx) ==
    [req |-> "deleteDimension", dimension |-> "ROWS",
     startIndex |-> idx, endIndex |-> idx + 1]

\* delete_rows_batch that keeps the order it was given
delete_rows_batch_unsorted(indices) ==
    IF indices = <<>> THEN <<>>
    ELSE <<BatchUpdate([i \in 1..Len(indices) |-> DeleteDimension(indices[i])])>>

\* delete_rows_batch: the calls it makes: none for no index, else one batchUpdate
\* of one deleteDimension per index, the indices sorted in reverse
delete_rows_batch(indices) ==
    IF indices = <<>> THEN <<>>
    ELSE LET sorted == SortedReverse(indices)
         IN  <<BatchUpdate([i \in 1..Len(sorted) |-> DeleteDimension(sorted[i])])>>

\* the longest run of characters of chars that s starts with
LeadingRun(s, chars) ==
    LET runs == {n \in 0..Len(s) :
                    \A i \in 1..n : \E j \in 1..Len(chars) : chars[j] = s[i]}
    IN  CHOOSE n \in runs : \A m \in runs : m <= n

\* re.match(r"([A-Z]+)([0-9]+)", s).groups(): the letters and the digits s starts
\* with; no match is None, and .groups() of None an AttributeError
MatchCell(s) ==
    LET nl == LeadingRun(s, UpperChars)
        rest == SubSeq(s, nl + 1, Len(s))
        nd == LeadingRun(rest, DigitChars)
    IN  IF nl = 0 \/ nd = 0 THEN Raise("AttributeError")
        ELSE Return([col |-> SubSeq(s, 1, nl), row |-> SubSeq(rest, 1, nd)])

\* col_to_index of a1_to_indexes: letters in base 26, A = 0
RECURSIVE ColNumber(_)
ColNumber(col) ==
    IF col = <<>> THEN 0
    ELSE ColNumber(SubSeq(col, 1, Len(col) - 1)) * 26
         + (CHOOSE j \in 1..Len(UpperChars) : UpperChars[j] = col[Len(col)])

col_to_index(col) == ColNumber(col) - 1

\* a1_to_indexes: "A2:C10" -> (start_row, end_row, start_col, end_col);
\* "start, end = a1_range.split(':')" is a ValueError unless there is one colon
a1_to_indexes(a1_range) ==
    LET colons == {i \in 1..Len(a1_range) : a1_range[i] = ":"}
    IN  IF Cardinality(colons) # 1 THEN Raise("ValueError")
        ELSE LET c == CHOOSE i \in colons : TRUE
                 start == MatchCell(SubSeq(a1_range, 1, c - 1))
                 end == MatchCell(SubSeq(a1_range, c + 1, Len(a1_range)))
             IN  IF start.exc # "none" THEN start
                 ELSE IF end.exc # "none" THEN end
                 ELSE Return([start_row |-> DigitsToInt(start.val.row) - 1,
                              end_row |-> DigitsToInt(end.val.row),
                              start_col |-> col_to_index(start.val.col),
                              end_col |-> col_to_index(end.val.col)])

\* color_range: the calls it makes, one repeatCell over the range
color_range(a1_range, rgb) ==
    LET ix == a1_to_indexes(a1_range)
    IN  IF ix.exc # "none" THEN ix
        ELSE Return(<<BatchUpdate(<<[req |-> "repeatCell",
                                     startRowIndex |-> ix.val.start_row,
                                     endRowIndex |-> ix.val.end_row,
                                     startColumnIndex |-> ix.val.start_col,
                                     endColumnIndex |-> ix.val.end_col,
                                     color |-> rgb]>>)>>)

\* color_row: a1 = f"{row}:{row}"
color_row(row, rgb) == color_range(PyStr(row) \o <<":">> \o PyStr(row), rgb)

\* add_row: one insertDimension of one row at index
add_row(index) ==
    BatchUpdate(<<[req |-> "insertDimension", dimension |-> "ROWS",
                   startIndex |-> index, endIndex |-> index + 1]>>)

\* delete_row: one deleteDimension of the row at index
delete_row(index) == BatchUpdate(<<DeleteDimension(index)>>)

\* move_column / move_row_dimension: one moveDimension
MoveDimension(dimension, from_index, to_index) ==
    BatchUpdate(<<[req |-> "moveDimension", dimension |-> dimension,
                   startIndex |-> from_index, endIndex |-> from_index + 1,
                   destinationIndex |-> to_index]>>)

move_column(old_index, new_index) == MoveDimension("COLUMNS", old_index, new_index)

move_row_dimension(from_index, to_index) == MoveDimension("ROWS", from_index, to_index)

\* f"{sheet_name}!{row}:{row}"
RowRange(row) == IntToStr(row) \o <<":">> \o IntToStr(row)

\* copy_row_values: the calls it makes; vals is what the read of from_row gives
copy_row_values(from_row, to_row, vals) ==
    <<[api |-> "values.get", range |-> RowRange(from_row)]>>
    \o IF vals = <<>> THEN <<>>
       ELSE <<[api |-> "values.update", range |-> RowRange(to_row), values |-> vals]>>

\* operators of the numeric conditions
s_ge == <<">","=">>
s_le == <<"<","=">>
s_eq == <<"=">>
s_ne == <<"!","=">>

\* the chain of comparisons "op == ... and v ... val"; an operator it does not
\* know matches nothing
Compare(op, v, val) ==
    \/ op = Str(s_gt) /\ v > val
    \/ op = Str(s_ge) /\ v >= val
    \/ op = Str(s_lt) /\ v < val
    \/ op = Str(s_le) /\ v <= val
    \/ op = Str(s_eq) /\ v = val
    \/ op = Str(s_ne) /\ v # val

\* COLOR_MAP, the channels in hundredths
COLOR_MAP ==
    (s_red :> <<100, 0, 0>>) @@ (s_green :> <<0, 100, 0>>)
    @@ (s_blue :> <<0, 0, 100>>) @@ (s_yellow :> <<100, 100, 0>>)
    @@ (s_orange :> <<100, 60, 0>>) @@ (s_purple :> <<60, 0, 100>>)
    @@ (s_pink :> <<100, 60, 80>>) @@ (s_cyan :> <<0, 100, 100>>)
    @@ (s_gray :> <<60, 60, 60>>) @@ (s_lightblue :> <<70, 85, 100>>)

\* a lookup whose default is the first entry of the table
ColorOf_red(name) == IF name \in DOMAIN COLOR_MAP THEN COLOR_MAP[name] ELSE <<100, 0, 0>>

\* COLOR_MAP.get(name, (1, 1, 0))
ColorOf(name) == IF name \in DOMAIN COLOR_MAP THEN COLOR_MAP[name] ELSE <<100, 100, 0>>

\* color_column: a1 = f"{column_letter}:{column_letter}"
color_column(column_letter, rgb) ==
    color_range(PyStr(column_letter) \o <<":">> \o PyStr(column_letter), rgb)

\* merge_cells: one mergeCells over the range
merge_cells(a1_range, merge_type) ==
    LET ix == a1_to_indexes(a1_range)
    IN  IF ix.exc # "none" THEN ix
        ELSE Return(<<BatchUpdate(<<[req |-> "mergeCells",
                                     startRowIndex |-> ix.val.start_row,
                                     endRowIndex |-> ix.val.end_row,
                                     startColumnIndex |-> ix.val.start_col,
                                     endColumnIndex |-> ix.val.end_col,
                                     mergeType |-> merge_type]>>)>>)

\* the repeatCell of color_if and color_multi: a row, no column bounds
RowCell(row_index, rgb) ==
    [req |-> "repeatCell",
     startRowIndex |-> row_index, endRowIndex |-> row_index + 1,
     color |-> rgb]

\* col_idx < len(row) and str(row[col_idx]).strip().lower() == value.lower()
CellEquals(row, col_idx, value) ==
    col_idx < Len(row) /\ Lower(Strip(row[col_idx + 1])) = Lower(value)

\* the indexes enumerate(all_vals[1:], start=1) gives to the rows that match
MatchingRows(vals, col_idx, value) ==
    SelectSeq([i \in 1..(Len(vals) - 1) |-> i],
              LAMBDA i : CellEquals(vals[i + 1], col_idx, value))

\* one repeatCell per row index
RowCells(rows, rgb) == [k \in 1..Len(rows) |-> RowCell(rows[k], rgb)]

\* color_if sending its batch whatever it holds
color_if_always(rows, rgb) == <<BatchUpdate(RowCells(rows, rgb))>>

\* color_if: one batchUpdate of the repeatCells, none when there is no row
color_if(rows, rgb) ==
    IF rows = <<>> THEN <<>> ELSE <<BatchUpdate(RowCells(rows, rgb))>>

\* what the head of color_multi's loop body raises for this rule
RuleError(columns, rule) ==
    IF rule.k # "dict" THEN "TypeError"
    ELSE IF ~Has(rule, "column") \/ ~Has(rule, "equals") \/ ~Has(rule, "color")
    THEN "KeyError"
    ELSE IF ~IsStr(rule.d["color"]) THEN "AttributeError"
    ELSE ListIndex(columns, rule.d["column"]).exc

\* the repeatCells of one rule of color_multi
RuleCells(vals, columns, rule) ==
    RowCells(MatchingRows(vals, ListIndex(columns, rule.d["column"]).val.n,
                          PyStr(rule.d["equals"])),
             ColorOf(Lower(rule.d["color"].s)))

\* the loop of color_multi over the rules from rule i on
RECURSIVE MultiCells(_, _, _, _, _)
MultiCells(vals, columns, items, i, done) ==
    IF i > Len(items) THEN Return(done)
    ELSE IF RuleError(columns, items[i]) # "none"
    THEN Raise(RuleError(columns, items[i]))
    ELSE MultiCells(vals, columns, items, i + 1,
                    done \o RuleCells(vals, columns, items[i]))

\* if not requests: return {}; else one batchUpdate
OneBatch(r) ==
    IF r.exc # "none" THEN r
    ELSE IF r.val = <<>> THEN Return(<<>>)
    ELSE Return(<<BatchUpdate(r.val)>>)

\* color_multi: the calls it makes; rules that is not a list is iterated as
\* Python iterates it
color_multi(vals, columns, rules) ==
    IF rules.k = "list" THEN OneBatch(MultiCells(vals, columns, rules.items, 1, <<>>))
    ELSE IF (rules.k = "dict" /\ DOMAIN rules.d = {}) \/ (rules.k = "str" /\ rules.s = <<>>)
    THEN Return(<<>>)
    ELSE Raise("TypeError")

RepeatCell(row_idx, col_idx, rgb) ==
    [req |-> "repeatCell",
     startRowIndex |-> row_idx, endRowIndex |-> row_idx + 1,
     startColumnIndex |-> col_idx, endColumnIndex |-> col_idx + 1,
     color |-> rgb]

\* "if mn <= v <= mx" of a between rule, mn and mx as float() gave them
RuleBetween(mn, mx, v, color) ==
    IF ~mn.ok \/ ~mx.ok THEN Raise("ValueError")
    ELSE IF mn.tenths <= v /\ v <= mx.tenths THEN Return(Str(Lower(color.s)))
    ELSE Return(Null)

\* the chain of comparisons of the other rules, val as float() gave it
RuleCompare(op, val, v, color) ==
    IF ~val.ok THEN Raise("ValueError")
    ELSE IF Compare(op, v, val.tenths) THEN Return(Str(Lower(color.s)))
    ELSE Return(Null)

\* rule.get("color", "yellow")
RuleColor(rule) == IF Has(rule, "color") THEN rule.d["color"] ELSE Str(s_yellow)

\* one rule of color_number_range against the value v (tenths): the colour name
\* when the rule applies, None when it does not, or what evaluating it raises
ApplyRule(rule, v) ==
    IF rule.k # "dict" THEN Raise("AttributeError")
    ELSE IF ~IsStr(RuleColor(rule)) THEN Raise("AttributeError")
    ELSE IF Get(rule, "operator") = Str(s_between)
    THEN IF ~Has(rule, "min") \/ ~Has(rule, "max") THEN Raise("KeyError")
         ELSE RuleBetween(PyFloat(rule.d["min"]), PyFloat(rule.d["max"]), v,
                          RuleColor(rule))
    ELSE RuleCompare(Get(rule, "operator"),
                     PyFloat(IF Has(rule, "value") THEN rule.d["value"] ELSE Num(0)),
                     v, RuleColor(rule))

\* the rule raised, or it applies
Settles(r) == r.exc # "none" \/ r.val # Null

\* AppliedColor that lets a later rule that applies override an earlier one
RECURSIVE AppliedColor_last(_, _, _)
AppliedColor_last(rules, i, v) ==
    IF i > Len(rules) THEN Return(Null)
    ELSE IF ApplyRule(rules[i], v).exc # "none" THEN ApplyRule(rules[i], v)
    ELSE IF Settles(AppliedColor_last(rules, i + 1, v))
    THEN AppliedColor_last(rules, i + 1, v)
    ELSE ApplyRule(rules[i], v)

\* the loop "for rule in rules" from rule i on: the colour of the first rule that
\* applies (break), None when none does
RECURSIVE AppliedColor(_, _, _)
AppliedColor(rules, i, v) ==
    IF i > Len(rules) THEN Return(Null)
    ELSE IF Settles(ApplyRule(rules[i], v)) THEN ApplyRule(rules[i], v)
    ELSE AppliedColor(rules, i + 1, v)

\* "for rule in rules" over whatever instruction.get("rules", []) holds
RulesItems(rules) ==
    CASE rules.k = "list" -> Return(rules.items)
      [] rules.k \in {"str", "dict"} /\ ~Truthy(rules) -> Return(<<>>)
      [] rules.k \in {"str", "dict"} -> Raise("AttributeError")
      [] OTHER -> Raise("TypeError")

\* the colour of one row: None when the cell is absent, no number, or no rule
\* applies
RowColor(row, col_idx, rules) ==
    IF col_idx >= Len(row) THEN Return(Null)
    ELSE IF ~ParseFloat(row[col_idx + 1]).ok THEN Return(Null)
    ELSE IF RulesItems(rules).exc # "none" THEN RulesItems(rules)
    ELSE AppliedColor(RulesItems(rules).val, 1, ParseFloat(row[col_idx + 1]).tenths)

\* "if applied_color:" the request of the row is appended
Coloured(applied, row_idx, col_idx, reqs) ==
    IF Truthy(applied)
    THEN Append(reqs, RepeatCell(row_idx, col_idx, ColorOf(applied.s)))
    ELSE reqs

\* the loop over enumerate(all_vals[1:], start=1) from row row_idx on; reqs holds
\* the requests appended so far
RECURSIVE ColorRows(_, _, _, _, _)
ColorRows(vals, row_idx, col_idx, rules, reqs) ==
    IF row_idx >= Len(vals) THEN Return(List(reqs))
    ELSE IF RowColor(vals[row_idx + 1], col_idx, rules).exc # "none"
    THEN RowColor(vals[row_idx + 1], col_idx, rules)
    ELSE ColorRows(vals, row_idx + 1, col_idx, rules,
                   Coloured(RowColor(vals[row_idx + 1], col_idx, rules).val,
                            row_idx, col_idx, reqs))

\* "if not requests: return {}", else the one batchUpdate
ColourCalls(r) ==
    IF r.exc # "none" THEN r
    ELSE IF r.val.items = <<>> THEN Return(List(<<>>))
    ELSE Return(List(<<BatchUpdate(r.val.items)>>))

\* color_number_range: the calls it makes (none when no row gets a colour), or
\* what it raises before making any
color_number_range(columns, vals, column_name, rules) ==
    IF ~InColumns(column_name, columns) THEN Raise("RuntimeError")
    ELSE ColourCalls(ColorRows(vals, 1, ListIndex(columns, column_name).val.n,
                               rules, <<>>))

\* DeleteIndices that gives up at the first row whose cell is absent or no number
RECURSIVE DeleteIndices_abort(_, _, _, _, _)
DeleteIndices_abort(vals, i, col_idx, op, val) ==
    IF i >= Len(vals) THEN <<>>
    ELSE LET row == vals[i + 1]
             rest == DeleteIndices_abort(vals, i + 1, col_idx, op, val)
         IN  IF col_idx >= Len(row) THEN <<>>
             ELSE LET cell_val == ParseFloat(row[col_idx + 1])
                  IN  IF ~cell_val.ok THEN <<>>
                      ELSE IF Compare(op, cell_val.tenths, val) THEN <<i>> \o rest
                      ELSE rest

\* the loop of the delete_rows branch from row i on: the indices of the rows
\* whose cell satisfies the condition; a row whose cell is absent or no number is
\* passed over (the try/except of the loop body)
RECURSIVE DeleteIndices(_, _, _, _, _)
DeleteIndices(vals, i, col_idx, op, val) ==
    IF i >= Len(vals) THEN <<>>
    ELSE LET row == vals[i + 1]
             rest == DeleteIndices(vals, i + 1, col_idx, op, val)
         IN  IF col_idx >= Len(row) THEN rest
             ELSE LET cell_val == ParseFloat(row[col_idx + 1])
                  IN  IF ~cell_val.ok THEN rest
                      ELSE IF Compare(op, cell_val.tenths, val) THEN <<i>> \o rest
                      ELSE rest

(***************************************************************************)
(* SpecDelete: delete_rows_batch applied to drawn lists of row indices     *)
(***************************************************************************)
DeleteInit ==
    /\ pc = "call"
    /\ row_indices \in SeqsUpTo(0..MaxRowIndex, MaxIndices)
    /\ headers = <<>>
    /\ wratio = <<>>
    /\ target = Null
    /\ ret = Return(Null)
    /\ instruction = Null
    /\ grounded = Return(Null)
    /\ regrounded = Return(Null)
    /\ schema = <<>>
    /\ header_row = 1
    /\ raw = <<>>
    /\ num_rows = 0
    /\ requests = <<>>
    /\ result = NoResult
    /\ all_vals = <<>>
    /\ errors = <<>>
    /\ service = FALSE

DeleteRowsBatch ==
    /\ pc = "call"
    /\ requests' = requests \o delete_rows_batch(row_indices)
    /\ pc' = "return"
    /\ UNCHANGED <<headers, wratio, target, ret, instruction, grounded, regrounded,
                   schema, header_row, raw, num_rows, result, all_vals, errors,
                   row_indices, service>>

DeleteNext == DeleteRowsBatch

SpecDelete == DeleteInit /\ [][DeleteNext]_vars

(***************************************************************************)
(* SheetsAIAgent.execute, stage by stage                                   *)
(***************************************************************************)
\* execute() ends: it returned val, or exc escaped it, in stage at
Returned(val, at) == [exc |-> "none", val |-> val, at |-> at]
Escaped(exc, at)  == [exc |-> exc, val |-> Null, at |-> at]

ErrorResult(message) ==
    Dict(("status" :> Str(S_ERROR)) @@ ("message" :> Str(message)))

SuccessResult(action, fields) ==
    Dict(("status" :> Str(S_SUCCESS)) @@ ("action" :> Str(action)) @@ fields)

\* a test that finds no "_error" key anywhere
ContainsErrorKey_never(v) == Return(Bool(FALSE))

\* "_error" in instruction, for whatever json.loads gave
ContainsErrorKey(v) ==
    CASE v.k = "dict" -> Return(Bool(Has(v, "_error")))
      [] v.k = "list" -> Return(Bool(\E i \in 1..Len(v.items) : v.items[i] = Str(S_ERROR_KEY)))
      [] v.k = "str"  -> Return(Bool(IsSubstr(S_ERROR_KEY, v.s)))
      [] OTHER        -> Raise("TypeError")

\* the columns of the sheet the agent is run against
s_RollNo == <<"R","o","l","l"," ","N","o">>
StudentColumns == <<s_RollNo, s_Name, s_CGPA>>

ExecColumnLists == (GroundColumnLists \ {<<>>}) \cup {StudentColumns}

\* JSON documents the oracle may answer with
OracleDocs ==
    {Rec(act_sort, ("column" :> c) @@ ("ascending" :> Bool(FALSE))) :
        c \in {Str(s_cgpa), Str(s_Name), Num(5)}}
    \cup {Rec(act_sort, ("ascending" :> Bool(TRUE)))}
    \cup {Rec(act_formula, ("target_column" :> c) @@ ("formula" :> Str(s_formula))) :
        c \in {Str(<<>>), Str(s_blank), Null, Str(s_Name), Str(s_cgpa), Num(5)}}
    \cup {Rec(act_formula, ("target_column" :> Str(<<>>)))}
    \cup {Rec(S_EXPLODE, ("column" :> Str(s_cgpa)))}
    \cup {Dict(("column" :> Str(s_Name)))}
    \cup {Dict(("_error" :> Str(s_zz)))}
    \cup {List(<<>>), List(<<Str(S_ERROR_KEY)>>), Num(5), Null, Str(s_zz), Str(S_ERROR_KEY)}

\* two rules that both apply to 9.5, in both orders
FirstWins ==
    <<Dict(("operator" :> Str(s_gt)) @@ ("value" :> Num(9)) @@ ("color" :> Str(s_green))),
      Dict(("operator" :> Str(s_ge)) @@ ("value" :> Num(7)) @@ ("color" :> Str(s_red)))>>

FirstWinsReversed == <<FirstWins[2], FirstWins[1]>>

SortEntry(column, ascending) ==
    Dict(("column" :> Str(column)) @@ ("ascending" :> Bool(ascending)))

\* JSON documents for the other branches of the dispatcher
DispatcherDocs ==
    {Rec(act_multicolumn_sort, ("sort" :> List(l))) :
        l \in {<<SortEntry(s_cgpa, FALSE), SortEntry(s_Name, TRUE)>>,
               <<SortEntry(s_Name, TRUE), SortEntry(s_cgpa, FALSE)>>}}
    \cup {Rec(act_multicolumn_sort, EmptyDict)}
    \cup {Rec(act_delete_rows, ("column" :> Str(s_cgpa)) @@ ("operator" :> Str(op))
                               @@ ("value" :> Num(8))) : op \in {s_lt, s_gt}}
    \cup {Rec(act_remove_duplicates, ("column" :> Str(s_cgpa)))}
    \cup {Rec(act_color_number_range, ("column" :> Str(s_cgpa)) @@ ("rules" :> List(l))) :
        l \in {NumberRules, FirstWins, FirstWinsReversed}}

\* JSON documents that carry a row or column position
PositionDocs ==
    {Rec(act_add_row, ("position" :> p)) : p \in {Num(1), Str(<<"2">>)}}
    \cup {Rec(act_delete_row, ("row" :> Num(2)))}
    \cup {Rec(act_color_row, ("row" :> r) @@ ("color" :> Str(s_red))) :
            r \in {Num(2), Str(<<"A","2">>)}}
    \cup {Rec(act_copy_row, ("from_row" :> Num(1)) @@ ("to_row" :> Num(2)))}
    \cup {Rec(act_move_row, ("from_row" :> Num(2)) @@ ("to_row" :> Num(0)))}
    \cup {Rec(act_add_column, ("column_name" :> Str(s_zz)) @@ ("position" :> Num(1)))}
    \cup {Rec(act_move_column, ("column" :> Str(s_cgpa)) @@ ("new_position" :> Num(0)))}
    \cup {Rec(act_move_row, ("from_row" :> Num(2)))}

\* the names of COLOR_MAP, a name written with a capital and a name it lacks
ColourNames == DOMAIN COLOR_MAP \cup {s_Red, s_teal}

\* rules of color_multi
MultiRule(column, equals, color) ==
    Dict(("column" :> Str(column)) @@ ("equals" :> equals) @@ ("color" :> Str(color)))

MultiRules ==
    {<<>>,
     <<MultiRule(s_CGPA, Str(<<"7">>), s_red)>>,
     <<MultiRule(s_CGPA, Num(7), s_Red), MultiRule(s_Name, Str(<<"A","B","C">>), s_blue)>>,
     <<Dict(("column" :> Str(s_CGPA)) @@ ("equals" :> Str(<<"7">>)))>>}

\* JSON documents of the colouring and merging actions
ColourDocs ==
    {Rec(act_color_range, ("range" :> Str(s_range)) @@ ("color" :> Str(c))) :
        c \in ColourNames}
    \cup {Rec(act_color_range, ("range" :> Str(s_column)) @@ ("color" :> Str(s_red)))}
    \cup {Rec(act_color_column, ("column" :> Str(s_C)) @@ ("color" :> Str(s_red)))}
    \cup {Rec(act_merge_cells, ("range" :> Str(s_range)) @@ ("merge_type" :> Str(S_MERGE_ROWS))),
          Rec(act_merge_cells, ("range" :> Str(s_column)))}
    \cup {Rec(act_color_if, ("column" :> Str(s_CGPA)) @@ ("equals" :> e)
                            @@ ("color" :> Str(s_green))) :
            e \in {Str(<<"7">>), Num(7), Str(s_cgpa), Str(s_zz)}}
    \cup {Rec(act_color_multi, ("rules" :> List(l))) : l \in MultiRules}

\* texts the oracle may answer with
OracleTexts ==
    {<<Doc(v)>> : v \in OracleDocs \cup DispatcherDocs \cup PositionDocs \cup ColourDocs}
    \cup {<<FenceJson, Ws, Doc(v), Ws, Fence>> : v \in OracleDocs}
    \cup {<<>>, <<Prose>>, <<Ws, Prose, Ws>>, <<Fence, Prose, Fence>>}
    \cup {<<Prose, Ws, Doc(v)>> : v \in {Rec(act_sort, ("column" :> Str(s_Name)))}}

ExecInit ==
    /\ pc = "start"
    /\ header_row \in 1..MaxHeaderRow
    /\ headers = <<>>
    /\ schema = <<>>
    /\ wratio = <<>>
    /\ target = Null
    /\ ret = Return(Null)
    /\ instruction = Null
    /\ grounded = Return(Null)
    /\ regrounded = Return(Null)
    /\ raw = <<>>
    /\ num_rows = 0
    /\ requests = <<>>
    /\ result = NoResult
    /\ all_vals = <<>>
    /\ errors = <<>>
    /\ row_indices = <<>>
    /\ service = FALSE

\* execute() is over
Finish(res) ==
    /\ result' = res
    /\ pc' = "done"

\* lines 1244-1277: a client is obtained when none is held, the sheet's metadata
\* is fetched and the sheet looked up
FetchMetadata ==
    /\ pc = "start"
    /\ \E outcome \in {"ok", "http_error", "no_sheet", "no_service"} :
          CASE outcome = "ok" -> pc' = "headers" /\ service' = TRUE /\ UNCHANGED result
            [] outcome = "http_error" ->
                  Finish(Escaped("HttpError", "metadata")) /\ service' = TRUE
            [] outcome = "no_sheet" ->
                  Finish(Escaped("RuntimeError", "metadata")) /\ service' = TRUE
            \* lines 1244-1245: self.connect() is called when no client is held,
            \* and may fail
            [] outcome = "no_service" ->
                  /\ ~service
                  /\ Finish(Escaped("AuthError", "connect"))
                  /\ UNCHANGED service
    /\ UNCHANGED <<headers, wratio, target, ret, instruction, grounded, regrounded,
                   schema, header_row, raw, num_rows, requests,
                   all_vals, errors, row_indices>>

\* lines 1280-1293: the header row is read, then the metadata once more
ReadHeaders ==
    /\ pc = "headers"
    /\ \E outcome \in {"ok", "http_error", "no_header", "no_sheet"} :
          CASE outcome = "ok" ->
                  /\ headers' \in ExecColumnLists
                  /\ pc' = "parse"
                  /\ UNCHANGED result
            [] outcome = "http_error" ->
                  Finish(Escaped("HttpError", "headers")) /\ UNCHANGED headers
            [] outcome = "no_header" ->
                  Finish(Escaped("RuntimeError", "headers")) /\ UNCHANGED headers
            [] outcome = "no_sheet" ->
                  /\ headers' \in ExecColumnLists
                  /\ Finish(Escaped("RuntimeError", "headers"))
    /\ schema' = headers'
    /\ UNCHANGED <<wratio, target, ret, instruction, grounded, regrounded,
                   header_row, raw, num_rows, requests, all_vals, errors, row_indices, service>>

\* lines 1296-1303: the oracle is asked and its text decoded
Parse ==
    /\ pc = "parse"
    /\ \/ /\ Finish(Escaped("OracleError", "oracle"))
          /\ UNCHANGED <<raw, instruction>>
       \/ \E text \in OracleTexts :
             LET decoded == parse_instruction_llm(text)
                 failed  == ContainsErrorKey(decoded)
             IN  /\ raw' = text
                 /\ instruction' = decoded
                 /\ IF failed.exc # "none" THEN Finish(Escaped(failed.exc, "parse"))
                    ELSE IF Truthy(failed.val)
                    THEN Finish(Returned(
                            Put(ErrorResult(S_FAILED_TO_PARSE), "details", decoded),
                            "parse"))
                    ELSE pc' = "ground" /\ UNCHANGED result
    /\ UNCHANGED <<headers, wratio, target, ret, grounded, regrounded,
                   schema, header_row, num_rows, requests, all_vals, errors, row_indices, service>>

\* line 1306: instruction = ground_columns(instruction, headers), under whatever
\* scores the build's scorer gives
GroundStep ==
    /\ pc = "ground"
    /\ \E w \in WRatioTables(RefTargets(instruction, headers), Range(headers)) :
          LET r == ground_columns(instruction, headers, w)
          IN  IF r.exc # "none"
              THEN Finish(Escaped(r.exc, "ground")) /\ UNCHANGED instruction
              ELSE instruction' = r.val /\ pc' = "read" /\ UNCHANGED result
    /\ UNCHANGED <<headers, wratio, target, ret, grounded, regrounded,
                   schema, header_row, raw, num_rows, requests, all_vals, errors,
                   row_indices, service>>

\* cells of a data row: no number, a decimal, an integer
CellPool == {<<"a","b","c">>, <<"9",".","5">>, <<"7">>}

\* data rows of a sheet of the given width: the empty row (every cell absent)
\* and full rows
DataRows(width) == {<<>>} \cup {[i \in 1..width |-> c] : c \in CellPool}

\* the branches that read cells of all_vals
ReadsCells(ins) ==
    Get(ins, "action") \in {Str(act_delete_rows), Str(act_color_number_range),
                            Str(act_color_if), Str(act_color_multi)}

\* rows above the header row: an empty row, a row with one cell
TitleRows == {<<>>, <<<<"7">>>>}

\* what get_sheet_values may give for the whole sheet, whose row header_row held
\* the headers when it was read: up to MaxRows rows, the header row among them.
\* The branches that look at no cell get rows without cells (only their number
\* counts); the others get the rows above the header, the header row and data
\* rows, with cells.
Sheets(ins, columns) ==
    IF ins.k = "dict" /\ ReadsCells(ins)
    THEN {above \o <<columns>> \o rows :
            above \in [1..(header_row - 1) -> TitleRows],
            rows \in SeqsUpTo(DataRows(Len(columns)), MaxRows - header_row)}
    ELSE {[i \in 1..n |-> <<>>] : n \in header_row..MaxRows}

\* lines 1309-1311: all values of the sheet are read
ReadAll ==
    /\ pc = "read"
    /\ \/ Finish(Escaped("HttpError", "read")) /\ UNCHANGED <<num_rows, all_vals>>
       \/ /\ all_vals' \in Sheets(instruction, headers)
          /\ num_rows' = Len(all_vals')
          /\ pc' = "dispatch"
          /\ UNCHANGED result
    /\ UNCHANGED <<headers, wratio, target, ret, instruction, grounded, regrounded,
                   schema, header_row, raw, requests, errors, row_indices, service>>

\* str(err) of an HttpError: one that names merged cells, one that does not
S_MERGED_CELL == <<"m","e","r","g","e","d"," ","c","e","l","l">>
S_ERR_MERGED ==
    <<"C","a","n","n","o","t"," ","r","e","m","o","v","e"," ","d","u","p","l","i","c","a","t","e","s",":"," ">>
    \o S_MERGED_CELL \o <<"s">>
S_ERR_OTHER == <<"I","n","t","e","r","n","a","l"," ","e","r","r","o","r">>
HttpMessages == {S_ERR_MERGED, S_ERR_OTHER}

\* the service answered call number req of this invocation with an HttpError
Failure(req, message) == [req |-> req, message |-> message]

\* The calls of one branch are made in order; the service may fail any of them,
\* and the HttpError escapes execute().  failAt = 0: none fails.
SendAll(calls, failAt, onSuccess, at) ==
    IF failAt = 0
    THEN /\ requests' = requests \o calls
         /\ Finish(onSuccess)
         /\ UNCHANGED errors
    ELSE /\ requests' = requests \o SubSeq(calls, 1, failAt)
         /\ \E message \in HttpMessages :
               errors' = Append(errors, Failure(Len(requests) + failAt, message))
         /\ Finish(Escaped("HttpError", at))

\* lines 1317-1338
DispatchSort ==
    /\ pc = "dispatch"
    /\ Get(instruction, "action") = Str(act_sort)
    /\ IF ~Has(instruction, "column")
       THEN Finish(Escaped("KeyError", "dispatch")) /\ UNCHANGED <<requests, errors>>
       ELSE LET col_name == instruction.d["column"]
                col_idx == ListIndex(headers, col_name)
                ascending == IF Has(instruction, "ascending")
                             THEN instruction.d["ascending"] ELSE Bool(TRUE)
            IN  IF col_idx.exc # "none"
                THEN Finish(Escaped(col_idx.exc, "dispatch")) /\ UNCHANGED <<requests, errors>>
                ELSE \E failAt \in 0..1 :
                        SendAll(<<apply_sort(col_idx.val.n, header_row, num_rows,
                                             Len(headers), ascending)>>,
                                failAt,
                                Returned(SuccessResult(act_sort,
                                    ("column" :> col_name) @@ ("ascending" :> ascending)
                                    @@ ("response" :> Dict(EmptyDict))), "dispatch"),
                                "dispatch")
    /\ UNCHANGED <<headers, wratio, target, ret, instruction, grounded, regrounded,
                   schema, header_row, raw, num_rows, all_vals, row_indices, service>>

\* lines 1440-1487
DispatchFormula ==
    /\ pc = "dispatch"
    /\ Get(instruction, "action") = Str(act_formula)
    /\ LET auto == Get(instruction, "_auto_new_column") # Null
           new_index == instruction.d["_auto_new_column"].n
           create == IF auto
                     THEN <<add_column(new_index),
                            ValuesUpdate(index_to_col_letter(new_index), header_row,
                                         <<instruction.d["target_column"]>>)>>
                     ELSE <<>>
           appended == IF auto
                       THEN Append(headers, instruction.d["target_column"].s)
                       ELSE headers
       IN  \E failAt \in 0..5, src \in {Null, Str(s_formula)} :
              \* the column is created first, whatever follows
              IF failAt \in 1..Len(create)
              THEN /\ requests' = requests \o SubSeq(create, 1, failAt)
                   /\ \E message \in HttpMessages :
                         errors' = Append(errors, Failure(Len(requests) + failAt, message))
                   /\ Finish(Escaped("HttpError", "dispatch"))
                   /\ UNCHANGED headers
              ELSE /\ headers' = appended
                   /\ IF ~Has(instruction, "target_column") \/ ~Has(instruction, "formula")
                      THEN /\ requests' = requests \o create
                           /\ Finish(Escaped("KeyError", "dispatch"))
                           /\ UNCHANGED errors
                      ELSE LET target_col == instruction.d["target_column"]
                               formula == instruction.d["formula"]
                               col_idx == ListIndex(appended, target_col)
                           IN  IF col_idx.exc # "none"
                               THEN /\ requests' = requests \o create
                                    /\ Finish(Escaped(col_idx.exc, "dispatch"))
                                    /\ UNCHANGED errors
                               ELSE LET calls ==
                                          create
                                          \o <<ValuesUpdate(
                                                 index_to_col_letter(col_idx.val.n),
                                                 header_row + 1, <<formula>>)>>
                                          \o fill_down_column(col_idx.val.n, header_row,
                                                              num_rows, src)
                                    IN  /\ failAt <= Len(calls)
                                        /\ SendAll(calls, failAt,
                                              Returned(SuccessResult(act_formula,
                                                  ("target_column" :> target_col)
                                                  @@ ("formula" :> formula)), "dispatch"),
                                              "dispatch")
    /\ UNCHANGED <<wratio, target, ret, instruction, grounded, regrounded,
                   schema, header_row, raw, num_rows, all_vals, row_indices, service>>

\* lines 1852-1853: no branch of the chain matched
DispatchUnknown ==
    /\ pc = "dispatch"
    /\ Get(instruction, "action") \notin {Str(a) : a \in KnownActions}
    /\ Finish(Returned(
          ErrorResult(S_UNKNOWN_ACTION \o PyStr(Get(instruction, "action"))),
          "unknown"))
    /\ UNCHANGED <<headers, wratio, target, ret, instruction, grounded, regrounded,
                   schema, header_row, raw, num_rows, requests, all_vals, errors,
                   row_indices, service>>

\* what every branch of the dispatcher leaves alone
DispatchFrame ==
    UNCHANGED <<headers, wratio, target, ret, instruction, grounded, regrounded,
                schema, header_row, raw, num_rows, all_vals, row_indices, service>>

\* the branch of the if/elif chain for this action is taken
Branch(action) == pc = "dispatch" /\ Get(instruction, "action") = Str(action)

\* an exception raised by the branch itself escapes execute()
RaiseAt(exc) == Finish(Escaped(exc, "dispatch")) /\ UNCHANGED <<requests, errors>>

\* what a branch is about to do: the calls it makes, in order, and how execute()
\* ends once all of them succeeded
Plan(calls, end) == Return([calls |-> calls, end |-> end])

\* instruction[key]
Field(ins, key) == IF Has(ins, key) THEN Return(ins.d[key]) ELSE Raise("KeyError")

\* the plan is carried out; the service may fail any call
Perform(r) ==
    IF r.exc # "none" THEN RaiseAt(r.exc)
    ELSE \E failAt \in 0..Len(r.val.calls) :
            SendAll(r.val.calls, failAt, r.val.end, "dispatch")

Success(action, fields) == Returned(SuccessResult(action, fields), "dispatch")

Response == "response" :> Dict(EmptyDict)

\* the loop of the multicolumn_sort branch from entry i on
RECURSIVE SortSpecs(_, _, _)
SortSpecs(items, i, done) ==
    IF i > Len(items) THEN Return(done)
    ELSE LET sp == items[i]
         IN  IF sp.k # "dict" THEN Raise("TypeError")
             ELSE IF ~Has(sp, "column") THEN Raise("KeyError")
             ELSE LET col_idx == ListIndex(headers, sp.d["column"])
                  IN  IF col_idx.exc # "none" THEN col_idx
                      ELSE SortSpecs(items, i + 1,
                               Append(done,
                                      [col_index |-> col_idx.val.n,
                                       ascending |-> IF Has(sp, "ascending")
                                                     THEN sp.d["ascending"]
                                                     ELSE Bool(TRUE)]))

\* lines 1341-1363
DispatchMultiSort ==
    /\ Branch(act_multicolumn_sort)
    /\ LET sort == IF Has(instruction, "sort") THEN instruction.d["sort"] ELSE List(<<>>)
           sort_specs == SortSpecs(sort.items, 1, <<>>)
       IN  Perform(
             IF sort_specs.exc # "none" THEN sort_specs
             ELSE Plan(<<apply_multi_sort(sort_specs.val, header_row, num_rows,
                                          Len(headers))>>,
                       \* "columns": [s["column"] for s in instruction["sort"]]
                       IF ~Has(instruction, "sort") THEN Escaped("KeyError", "dispatch")
                       ELSE Success(act_multicolumn_sort,
                               ("columns" :> List([i \in 1..Len(sort.items) |->
                                                     sort.items[i].d["column"]]))
                               @@ Response)))
    /\ DispatchFrame

\* lines 1386-1419
DispatchDeleteRows ==
    /\ Branch(act_delete_rows)
    /\ LET col_name == Field(instruction, "column")
           col_idx == IF col_name.exc # "none" THEN col_name
                      ELSE ListIndex(headers, col_name.val)
           op == Field(instruction, "operator")
           value == Field(instruction, "value")
       IN  Perform(
             IF col_idx.exc # "none" THEN col_idx
             ELSE IF op.exc # "none" THEN op
             ELSE IF value.exc # "none" THEN value
             ELSE IF ~PyFloat(value.val).ok THEN Raise("ValueError")
             ELSE LET delete_indices ==
                          DeleteIndices(all_vals, 1, col_idx.val.n, op.val,
                                        PyFloat(value.val).tenths)
                  IN  Plan(delete_rows_batch(delete_indices),
                           Success(act_delete_rows,
                               ("column" :> col_name.val)
                               @@ ("deleted_count" :> Num(Len(delete_indices)))
                               @@ Response)))
    /\ DispatchFrame

\* "merged cell" in str(err)
IsMergedCellError_any(message) == TRUE

IsMergedCellError(message) == IsSubstr(S_MERGED_CELL, message)

\* what the service answers one call with
Answers == {<<>>} \cup HttpMessages

\* lines 1422-1437: remove_duplicates, and after a merged-cell error unmerge_all
\* and remove_duplicates once more; first, unmerge and second are what the service
\* answers the three calls with (<<>>: no error)
DispatchRemoveDuplicates ==
    /\ Branch(act_remove_duplicates)
    /\ LET col_name == Field(instruction, "column")
           col_idx == IF col_name.exc # "none" THEN col_name
                      ELSE ListIndex(headers, col_name.val)
       IN  IF col_idx.exc # "none" THEN RaiseAt(col_idx.exc)
           ELSE LET dedupe == remove_duplicates(col_idx.val.n)
                    done == Success(act_remove_duplicates,
                                    ("column" :> col_name.val) @@ Response)
                    n == Len(requests)
                IN  \E first \in Answers, unmerge \in Answers, second \in Answers :
                       IF first = <<>>
                       THEN /\ unmerge = <<>> /\ second = <<>>
                            /\ requests' = Append(requests, dedupe)
                            /\ errors' = errors
                            /\ Finish(done)
                       ELSE IF ~IsMergedCellError(first)
                       THEN /\ unmerge = <<>> /\ second = <<>>
                            /\ requests' = Append(requests, dedupe)
                            /\ errors' = Append(errors, Failure(n + 1, first))
                            /\ Finish(Escaped("HttpError", "dispatch"))
                       ELSE IF unmerge # <<>>
                       THEN /\ second = <<>>
                            /\ requests' = requests \o <<dedupe, unmerge_all>>
                            /\ errors' = errors \o <<Failure(n + 1, first),
                                                     Failure(n + 2, unmerge)>>
                            /\ Finish(Escaped("HttpError", "dispatch"))
                       ELSE IF second # <<>>
                       THEN /\ requests' = requests \o <<dedupe, unmerge_all, dedupe>>
                            /\ errors' = errors \o <<Failure(n + 1, first),
                                                     Failure(n + 3, second)>>
                            /\ Finish(Escaped("HttpError", "dispatch"))
                       ELSE /\ requests' = requests \o <<dedupe, unmerge_all, dedupe>>
                            /\ errors' = Append(errors, Failure(n + 1, first))
                            /\ Finish(done)
    /\ DispatchFrame

\* lines 1810-1827
DispatchColorNumberRange ==
    /\ Branch(act_color_number_range)
    /\ LET col_name == Field(instruction, "column")
           rules == IF Has(instruction, "rules") THEN instruction.d["rules"]
                    ELSE List(<<>>)
           calls == IF col_name.exc # "none" THEN col_name
                    ELSE color_number_range(headers, all_vals, col_name.val, rules)
       IN  Perform(
             IF calls.exc # "none" THEN calls
             ELSE Plan(calls.val.items,
                       Success(act_color_number_range,
                           ("column" :> col_name.val) @@ ("rules" :> rules)
                           @@ Response)))
    /\ DispatchFrame

\* instruction["color"].lower()
ColorField(ins) ==
    LET color == Field(ins, "color")
    IN  IF color.exc # "none" THEN color
        ELSE IF ~IsStr(color.val) THEN Raise("AttributeError")
        ELSE Return(Str(Lower(color.val.s)))

\* lines 1504-1517
DispatchColorColumn ==
    /\ Branch(act_color_column)
    /\ LET col == Field(instruction, "column")
           color == ColorField(instruction)
       IN  Perform(
             IF col.exc # "none" THEN col
             ELSE IF color.exc # "none" THEN color
             ELSE LET calls == color_column(col.val, ColorOf(color.val.s))
                  IN  IF calls.exc # "none" THEN calls
                      ELSE Plan(calls.val,
                                Success(act_color_column,
                                    ("column" :> col.val) @@ ("color" :> color.val)
                                    @@ Response)))
    /\ DispatchFrame

\* a1_range.split(":") of whatever the instruction holds
RangeField(ins) ==
    LET a1 == Field(ins, "range")
    IN  IF a1.exc # "none" THEN a1
        ELSE IF ~IsStr(a1.val) THEN Raise("AttributeError")
        ELSE a1

\* lines 1520-1534
DispatchColorRange ==
    /\ Branch(act_color_range)
    /\ LET a1 == Field(instruction, "range")
           color == ColorField(instruction)
       IN  Perform(
             IF a1.exc # "none" THEN a1
             ELSE IF color.exc # "none" THEN color
             ELSE IF ~IsStr(a1.val) THEN Raise("AttributeError")
             ELSE LET calls == color_range(a1.val.s, ColorOf(color.val.s))
                  IN  IF calls.exc # "none" THEN calls
                      ELSE Plan(calls.val,
                                Success(act_color_range,
                                    ("range" :> a1.val) @@ ("color" :> color.val)
                                    @@ Response)))
    /\ DispatchFrame

\* what the head of the color_if branch raises (lines 1537-1542)
ColorIfError(ins, columns) ==
    IF ~Has(ins, "column") \/ ~Has(ins, "equals") THEN "KeyError"
    ELSE IF ColorField(ins).exc # "none" THEN ColorField(ins).exc
    ELSE ListIndex(columns, ins.d["column"]).exc

\* matching_rows of the color_if branch (lines 1544-1550)
matching_rows(ins, columns, vals) ==
    MatchingRows(vals, ListIndex(columns, ins.d["column"]).val.n, PyStr(ins.d["equals"]))

\* lines 1536-1565
DispatchColorIf ==
    /\ Branch(act_color_if)
    /\ Perform(
          IF ColorIfError(instruction, headers) # "none"
          THEN Raise(ColorIfError(instruction, headers))
          ELSE Plan(color_if(matching_rows(instruction, headers, all_vals),
                             ColorOf(ColorField(instruction).val.s)),
                    Success(act_color_if,
                        ("column" :> instruction.d["column"])
                        @@ ("equals" :> Str(PyStr(instruction.d["equals"])))
                        @@ ("color" :> ColorField(instruction).val)
                        @@ ("rows_colored" :>
                              List([k \in 1..Len(matching_rows(instruction, headers, all_vals))
                                      |-> Num(matching_rows(instruction, headers, all_vals)[k])]))
                        @@ Response)))
    /\ DispatchFrame

\* lines 1567-1577
DispatchColorMulti ==
    /\ Branch(act_color_multi)
    /\ LET rules == Field(instruction, "rules")
           calls == IF rules.exc # "none" THEN rules
                    ELSE color_multi(all_vals, headers, rules.val)
       IN  Perform(
             IF calls.exc # "none" THEN calls
             ELSE Plan(calls.val,
                       Success(act_color_multi, ("rules" :> rules.val) @@ Response)))
    /\ DispatchFrame

\* lines 1730-1744
DispatchMergeCells ==
    /\ Branch(act_merge_cells)
    /\ LET a1 == RangeField(instruction)
           merge_type == IF Has(instruction, "merge_type")
                         THEN instruction.d["merge_type"] ELSE Str(S_MERGE_ALL)
           calls == IF a1.exc # "none" THEN a1 ELSE merge_cells(a1.val.s, merge_type)
       IN  Perform(
             IF calls.exc # "none" THEN calls
             ELSE Plan(calls.val,
                       Success(act_merge_cells,
                           ("range" :> a1.val) @@ ("merge_type" :> merge_type)
                           @@ Response)))
    /\ DispatchFrame

\* int(instruction[key])
IntField(ins, key) ==
    LET v == Field(ins, key)
    IN  IF v.exc # "none" THEN v
        ELSE IF PyInt(v.val).ok THEN Return(Num(PyInt(v.val).n))
        ELSE IF v.val.k = "str" THEN Raise("ValueError")
        ELSE Raise("TypeError")

\* lines 1490-1503
DispatchColorRow ==
    /\ Branch(act_color_row)
    /\ LET row == Field(instruction, "row")
           color == Field(instruction, "color")
       IN  Perform(
             IF row.exc # "none" THEN row
             ELSE IF color.exc # "none" THEN color
             ELSE IF ~IsStr(color.val) THEN Raise("AttributeError")
             ELSE LET calls == color_row(row.val, ColorOf(Lower(color.val.s)))
                  IN  IF calls.exc # "none" THEN calls
                      ELSE Plan(calls.val,
                                Success(act_color_row,
                                    ("row" :> row.val)
                                    @@ ("color" :> Str(Lower(color.val.s)))
                                    @@ Response)))
    /\ DispatchFrame

\* lines 1579-1603
DispatchAddColumn ==
    /\ Branch(act_add_column)
    /\ LET col_name == Field(instruction, "column_name")
           pos == IntField(instruction, "position")
       IN  Perform(
             IF col_name.exc # "none" THEN col_name
             ELSE IF pos.exc # "none" THEN pos
             ELSE Plan(<<add_column(pos.val.n),
                         ValuesUpdate(index_to_col_letter(pos.val.n), header_row,
                                      <<col_name.val>>)>>,
                       Success(act_add_column,
                           ("column_name" :> col_name.val) @@ ("position" :> pos.val)
                           @@ Response)))
    /\ DispatchFrame

\* lines 1616-1625
DispatchAddRow ==
    /\ Branch(act_add_row)
    /\ LET pos == IntField(instruction, "position")
       IN  Perform(
             IF pos.exc # "none" THEN pos
             ELSE Plan(<<add_row(pos.val.n)>>,
                       Success(act_add_row, ("position" :> pos.val) @@ Response)))
    /\ DispatchFrame

\* lines 1627-1636
DispatchDeleteRow ==
    /\ Branch(act_delete_row)
    /\ LET row == IntField(instruction, "row")
       IN  Perform(
             IF row.exc # "none" THEN row
             ELSE Plan(<<delete_row(row.val.n)>>,
                       Success(act_delete_row, ("row" :> row.val) @@ Response)))
    /\ DispatchFrame

\* lines 1638-1653
DispatchMoveColumn ==
    /\ Branch(act_move_column)
    /\ LET col_name == Field(instruction, "column")
           old_index == IF col_name.exc # "none" THEN col_name
                        ELSE ListIndex(headers, col_name.val)
           new_index == IntField(instruction, "new_position")
       IN  Perform(
             IF old_index.exc # "none" THEN old_index
             ELSE IF new_index.exc # "none" THEN new_index
             ELSE Plan(<<move_column(old_index.val.n, new_index.val.n)>>,
                       Success(act_move_column,
                           ("column" :> col_name.val)
                           @@ ("from_index" :> old_index.val)
                           @@ ("to_index" :> new_index.val) @@ Response)))
    /\ DispatchFrame

\* what the read of one row gives: nothing, or the row
RowReads == {<<>>, <<<<Str(<<"7">>)>>>>}

\* lines 1768-1781
DispatchCopyRow ==
    /\ Branch(act_copy_row)
    /\ LET from_row == IntField(instruction, "from_row")
           to_row == IntField(instruction, "to_row")
       IN  \E vals \in RowReads :
              Perform(
                IF from_row.exc # "none" THEN from_row
                ELSE IF to_row.exc # "none" THEN to_row
                ELSE Plan(copy_row_values(from_row.val.n, to_row.val.n, vals),
                          Success(act_copy_row,
                              ("from_row" :> from_row.val) @@ ("to_row" :> to_row.val)
                              @@ Response)))
    /\ DispatchFrame

\* lines 1783-1798
DispatchMoveRow ==
    /\ Branch(act_move_row)
    /\ LET from_row == IntField(instruction, "from_row")
           to_row == IntField(instruction, "to_row")
       IN  Perform(
             IF from_row.exc # "none" THEN from_row
             ELSE IF to_row.exc # "none" THEN to_row
             ELSE Plan(<<move_row_dimension(from_row.val.n, to_row.val.n)>>,
                       Success(act_move_row,
                           ("from_row" :> from_row.val) @@ ("to_row" :> to_row.val)
                           @@ Response)))
    /\ DispatchFrame

Dispatch ==
    \/ DispatchSort
    \/ DispatchMultiSort
    \/ DispatchDeleteRows
    \/ DispatchRemoveDuplicates
    \/ DispatchFormula
    \/ DispatchColorNumberRange
    \/ DispatchColorRow
    \/ DispatchColorColumn
    \/ DispatchColorRange
    \/ DispatchColorIf
    \/ DispatchColorMulti
    \/ DispatchMergeCells
    \/ DispatchAddColumn
    \/ DispatchAddRow
    \/ DispatchDeleteRow
    \/ DispatchMoveColumn
    \/ DispatchCopyRow
    \/ DispatchMoveRow
    \/ DispatchUnknown

\* backend_api.py lines 38-39: the agent, a module-level object, is given the
\* next request: a new call of execute() starts with new locals; the caller may
\* have called connect() first
Invoke ==
    /\ pc = "done"
    /\ pc' = "start"
    /\ header_row' \in 1..MaxHeaderRow
    /\ headers' = <<>>
    /\ schema' = <<>>
    /\ instruction' = Null
    /\ raw' = <<>>
    /\ num_rows' = 0
    /\ requests' = <<>>
    /\ result' = NoResult
    /\ all_vals' = <<>>
    /\ errors' = <<>>
    /\ service' \in {service, TRUE}
    /\ UNCHANGED <<wratio, target, ret, grounded, regrounded, row_indices>>

Next ==
    FetchMetadata \/ ReadHeaders \/ Parse \/ GroundStep \/ ReadAll \/ Dispatch \/ Invoke

Spec == ExecInit /\ [][Next]_vars

(***************************************************************************)
(* Properties of fuzzy_match_column (SpecResolve)                          *)
(***************************************************************************)
MaxOf(S) == CHOOSE x \in S : \A y \in S : y <= x

\* the highest score any column of the call gets
BestScore == MaxOf({wratio[target.s][headers[i]] : i \in 1..Len(headers)})

\* the columns of the call that contain the target or are contained in it,
\* case folded
Containing ==
    {i \in 1..Len(headers) :
        \/ IsSubstr(Lower(target.s), Lower(headers[i]))
        \/ IsSubstr(Lower(headers[i]), Lower(target.s))}

\* C2: for every non-empty candidate list and every target string,
\* fuzzy_match_column returns (raises nothing) and what it returns is one of the
\* candidates.
C2_ResolverTotal ==
    (pc = "return" /\ headers # <<>>) =>
        /\ ret.exc = "none"
        /\ IsStr(ret.val)
        /\ \E i \in 1..Len(headers) : headers[i] = ret.val.s

\* C2 witness: a call answered by the last tier: the target is no candidate, no
\* score reaches the threshold and no candidate contains or is contained in it.
C2_Witness ==
    /\ pc = "return"
    /\ headers # <<>>
    /\ ~InColumns(target, headers)
    /\ BestScore < Threshold
    /\ Containing = {}
    /\ ret.exc = "none"

\* C3: the three tiers in order: a best-scoring candidate when the best score is
\* at least the threshold, even when some candidate is a substring match;
\* otherwise the first candidate, in candidate order, containing the lower-cased
\* target or contained in it; otherwise a best-scoring candidate whatever its score.
C3_ThreeTiers ==
    (pc = "return" /\ headers # <<>>) =>
        /\ ret.exc = "none"
        /\ InColumns(ret.val, headers)
        /\ (BestScore >= Threshold => wratio[target.s][ret.val.s] = BestScore)
        /\ (BestScore < Threshold /\ Containing # {} =>
                \E i \in Containing :
                    /\ ret.val.s = headers[i]
                    /\ \A j \in Containing : i <= j)
        /\ (BestScore < Threshold /\ Containing = {} =>
                wratio[target.s][ret.val.s] = BestScore)

\* C3 witness: the threshold tier wins over a substring match (the best score is
\* exactly the threshold and the first substring match is another, lower-scoring
\* candidate).
C3_Witness ==
    /\ pc = "return"
    /\ headers # <<>>
    /\ BestScore = Threshold
    /\ Containing # {}
    /\ wratio[target.s][headers[Min(Containing)]] < BestScore
    /\ wratio[target.s][ret.val.s] = BestScore

(***************************************************************************)
(* Properties of ground_columns (SpecGround)                               *)
(***************************************************************************)
\* the column-reference values of a dict value: its simple reference keys and the
\* column of every entry of its sort and rules lists
RefValues(dv) ==
    {dv.d[key] : key \in RefKeys \cap DOMAIN dv.d}
    \cup {e.d["column"] : e \in {x \in ItemsOf(dv, "sort") \cup ItemsOf(dv, "rules") :
                                    x.k = "dict" /\ Has(x, "column")}}

\* the oracle supplied strings (or no target at all) for every reference
SuppliedStrings(dv) ==
    /\ \A key \in (RefKeys \ {"target_column"}) \cap DOMAIN dv.d : IsStr(dv.d[key])
    /\ Has(dv, "target_column") => dv.d["target_column"].k \in {"str", "null"}
    /\ \A e \in ItemsOf(dv, "sort") \cup ItemsOf(dv, "rules") :
           e.k = "dict" /\ Has(e, "column") => IsStr(e.d["column"])

\* C1: after ground_columns on a non-empty column list, every column-reference
\* field (column, old_name, from, target_column, each sort[i].column, each
\* rules[i].column) holds a member of the column list, or the instruction carries
\* the new-column marker _auto_new_column; for every action kind and every
\* reference string the oracle supplied.
C1_GroundedRefsInSchema ==
    (pc = "grounded" /\ headers # <<>> /\ SuppliedStrings(instruction)) =>
        /\ grounded.exc = "none"
        /\ \A v \in RefValues(grounded.val) :
               InColumns(v, headers) \/ Has(grounded.val, "_auto_new_column")

\* C1 witness: a nested rule named a column that does not exist and grounding
\* replaced it by an existing one.
C1_Witness ==
    /\ pc = "grounded"
    /\ grounded.exc = "none"
    /\ SuppliedStrings(instruction)
    /\ \E e \in ItemsOf(instruction, "rules") : ~InColumns(e.d["column"], headers)
    /\ \A e \in ItemsOf(grounded.val, "rules") : InColumns(e.d["column"], headers)

\* C8: grounding is idempotent: grounding the grounded instruction against the
\* same columns gives the grounded instruction back, also when the first pass
\* synthesized a Column_<n> target.
C8_GroundingIdempotent ==
    pc = "regrounded" => regrounded = grounded

\* The second pass changes nothing unless the first synthesized a target.
GroundingIdempotentWithoutSynthesis ==
    (pc = "regrounded" /\ ~Has(grounded.val, "_auto_new_column")) =>
        regrounded = grounded

\* C10: "to", "new_name" and "column_name" name columns that may not exist yet:
\* ground_columns leaves them as they were, whether or not they are column names.
MayNotExistKeys == {"to", "new_name", "column_name"}

C10_NewNamesUntouched ==
    (pc = "grounded" /\ grounded.exc = "none") =>
        \A key \in MayNotExistKeys \cap DOMAIN instruction.d :
            /\ Has(grounded.val, key)
            /\ grounded.val.d[key] = instruction.d[key]

\* C10 witness: a copy whose source was rewritten while its destination, no
\* column of the sheet, was kept.
C10_Witness ==
    /\ pc = "grounded"
    /\ grounded.exc = "none"
    /\ Has(instruction, "to")
    /\ ~InColumns(instruction.d["to"], headers)
    /\ grounded.val.d["to"] = instruction.d["to"]
    /\ grounded.val.d["from"] # instruction.d["from"]

\* two list entries equal but for the value under "column"
SameButColumn(a, b) ==
    IF a.k = "dict" /\ b.k = "dict"
    THEN /\ DOMAIN a.d = DOMAIN b.d
         /\ \A key \in DOMAIN a.d \ {"column"} : a.d[key] = b.d[key]
    ELSE a = b

\* two values under "sort" or "rules": lists of the same length whose entries, in
\* order, are equal but for their column; any other value unchanged
SameList(a, b) ==
    IF a.k = "list" /\ b.k = "list"
    THEN /\ Len(a.items) = Len(b.items)
         /\ \A i \in 1..Len(a.items) : SameButColumn(a.items[i], b.items[i])
    ELSE a = b

\* C11: ground_columns changes column references only: the grounded instruction
\* has the keys of the instruction (and at most the marker _auto_new_column more);
\* the action and every field that is no reference (ascending, operator, value,
\* color, range, row, position, formula, to, new_name, column_name) are equal
\* before and after; the sort and rules lists keep their length and order, and
\* every entry keeps every field but its column (rule operators, bounds, colors).
C11_OnlyReferencesChange ==
    (pc = "grounded" /\ grounded.exc = "none") =>
        /\ grounded.val.k = "dict"
        /\ DOMAIN grounded.val.d \ {"_auto_new_column"} = DOMAIN instruction.d
        /\ \A key \in DOMAIN instruction.d \ (RefKeys \cup {"sort", "rules"}) :
               grounded.val.d[key] = instruction.d[key]
        /\ \A key \in DOMAIN instruction.d \cap {"sort", "rules"} :
               SameList(instruction.d[key], grounded.val.d[key])

\* C11 witness: a multicolumn_sort whose sort list has two entries, one of them
\* rewritten by grounding, and both still carrying their ascending flag.
C11_Witness ==
    /\ pc = "grounded"
    /\ grounded.exc = "none"
    /\ Get(instruction, "action") = Str(act_multicolumn_sort)
    /\ Len(instruction.d["sort"].items) = 2
    /\ grounded.val.d["sort"] # instruction.d["sort"]
    /\ \A i \in 1..2 : grounded.val.d["sort"].items[i].d["ascending"] = Bool(FALSE)

\* what an entry of a nested reference list must become: the resolver's result
\* under "column" when its column is a string that is no column of the sheet,
\* the entry itself otherwise
GroundedEntry(e) ==
    IF e.k = "dict" /\ Has(e, "column") /\ IsStr(e.d["column"])
       /\ ~InColumns(e.d["column"], headers)
    THEN Put(e, "column", fuzzy_match_column(e.d["column"], headers, wratio).val)
    ELSE e

\* the list under key is grounded entry by entry
Elementwise(key) ==
    (Has(instruction, key) /\ instruction.d[key].k = "list") =>
        /\ grounded.exc = "none"
        /\ grounded.val.d[key].k = "list"
        /\ Len(grounded.val.d[key].items) = Len(instruction.d[key].items)
        /\ \A i \in 1..Len(instruction.d[key].items) :
               grounded.val.d[key].items[i] = GroundedEntry(instruction.d[key].items[i])

\* C12: nested reference lists are grounded entry by entry: in the sort list of a
\* multicolumn_sort and in any rules list, an entry whose column is a string that
\* is no column is replaced by the resolver's result, and an entry whose column is
\* no string, or is a column already, is passed through unchanged; no error.
C12_NestedListsElementwise ==
    pc = "grounded" =>
        /\ (Get(instruction, "action") = Str(act_multicolumn_sort) => Elementwise("sort"))
        /\ Elementwise("rules")

\* The sort list of a multicolumn_sort is grounded entry by entry.
SortListElementwise ==
    (pc = "grounded" /\ Get(instruction, "action") = Str(act_multicolumn_sort)) =>
        Elementwise("sort")

\* A rules list whose entries with a column all have a string there is grounded
\* entry by entry.
RulesListOfStringsElementwise ==
    (pc = "grounded" /\ SuppliedStrings(instruction)) => Elementwise("rules")

(***************************************************************************)
(* Properties of delete_rows_batch (SpecDelete)                            *)
(***************************************************************************)
\* the row indices of the deleteDimension requests of a call, in order
DeletedIndices(call) == [i \in 1..Len(call.reqs) |-> call.reqs[i].startIndex]

\* how often x occurs in xs
Count(xs, x) == Cardinality({i \in 1..Len(xs) : xs[i] = x})

\* delete_rows_batch returned: at most one batchUpdate was made, none for an
\* empty list, and it holds one deleteDimension of one row per index given
OneBatchOfAll ==
    /\ Len(requests) = (IF row_indices = <<>> THEN 0 ELSE 1)
    /\ \A c \in 1..Len(requests) :
          /\ requests[c].api = "batchUpdate"
          /\ Len(requests[c].reqs) = Len(row_indices)
          /\ \A i \in 1..Len(requests[c].reqs) :
                requests[c].reqs[i] = DeleteDimension(requests[c].reqs[i].startIndex)
          /\ \A x \in 0..MaxRowIndex :
                Count(DeletedIndices(requests[c]), x) = Count(row_indices, x)

Distinct(xs) == \A i, j \in 1..Len(xs) : i # j => xs[i] # xs[j]

Answered ==
    /\ pc \notin {"start", "headers", "parse"}
    /\ result.at \notin {"connect", "metadata", "headers", "oracle"}

\* what the oracle's text decoded to
Decoded == parse_instruction_llm(raw)

IsJson == Decodes(CleanRaw(raw))

StatusOf(res) == IF res.val.k = "dict" /\ Has(res.val, "status")
                 THEN res.val.d["status"] ELSE Null

\* C4: whatever the oracle answers, whatever the schema and whatever the service
\* does, execute() ends by returning a result whose status is success or error:
\* no exception escapes (sheet not found, unreadable header row, a missing field,
\* a service failure).  No merged-cell conflict arises in these runs.
C4_AlwaysAResult ==
    pc = "done" =>
        /\ result.exc = "none"
        /\ StatusOf(result) \in {Str(S_SUCCESS), Str(S_ERROR)}

S_PARSE == <<"p","a","r","s","e">>

\* C5: when the oracle's text is not JSON, execute() raises nothing and returns
\* status error with a message containing "parse"; the details carry the text
\* (as the decoder saw it: without code fences and surrounding whitespace, so
\* verbatim when it had none).
C5_NotJsonIsParseError ==
    (pc = "done" /\ Answered /\ ~IsJson) =>
        /\ result.exc = "none"
        /\ StatusOf(result) = Str(S_ERROR)
        /\ Has(result.val, "message")
        /\ IsStr(result.val.d["message"])
        /\ IsSubstr(S_PARSE, result.val.d["message"].s)
        /\ Has(result.val, "details")
        /\ result.val.d["details"].k = "dict"
        /\ Has(result.val.d["details"], "_raw")
        /\ LET kept == result.val.d["details"].d["_raw"]
           IN  /\ kept.k = "text"
               /\ \A i \in 1..Len(raw) : raw[i].k = "str" =>
                      \E j \in 1..Len(kept.items) : kept.items[j] = raw[i]
               /\ (\A i \in 1..Len(raw) : raw[i].k \notin {"fence", "fence_json", "ws"})
                      => kept.items = raw

\* C5 witness: the oracle answered in prose and execute() returned an error result.
C5_Witness ==
    /\ pc = "done"
    /\ Answered
    /\ raw = <<Prose>>
    /\ result.exc = "none"
    /\ StatusOf(result) = Str(S_ERROR)

\* the text decoded, but not to an object with an "action" field
NotAnActionObject == IsJson /\ (Decoded.k # "dict" \/ ~Has(Decoded, "action"))

\* C6: no decode failure escapes the parse step: when the oracle's text is not
\* JSON, or is JSON but no action object (a list, a number, a string, null, an
\* object without "action"), execute() returns an error result and raises
\* nothing (a failure of the service while reading the sheet set aside).
C6_ParseNeverThrows ==
    (pc = "done" /\ Answered /\ result.at # "read" /\ (~IsJson \/ NotAnActionObject)) =>
        /\ result.exc = "none"
        /\ StatusOf(result) = Str(S_ERROR)

\* res holds the text toks, at the top or one level down
CarriesText(res, toks) ==
    \E key \in DOMAIN res.d :
        \/ res.d[key] = Text(toks)
        \/ /\ res.d[key].k = "dict"
           /\ \E k2 \in DOMAIN res.d[key].d : res.d[key].d[k2] = Text(toks)

\* C7: when the "action" of the decoded object is none of the known kinds,
\* execute() returns an error result that carries the oracle's text.
C7_UnknownActionCarriesRaw ==
    (pc = "done" /\ result.at = "unknown") =>
        /\ result.exc = "none"
        /\ StatusOf(result) = Str(S_ERROR)
        /\ CarriesText(result.val, raw) \/ CarriesText(result.val, CleanRaw(raw))

\* the oracle asked for a formula and named no target ("", blank or null), and
\* grounding is over
BlankTargetFormula ==
    /\ pc \in {"read", "dispatch", "done"}
    /\ Answered
    /\ IsJson
    /\ Decoded.k = "dict"
    /\ Get(Decoded, "action") = Str(act_formula)
    /\ Has(Decoded, "target_column")
    /\ Decoded.d["target_column"] \in {Null, Str(<<>>), Str(s_blank)}

\* a write below the header row
IsFormulaWrite(r) == r.api = "values.update" /\ r.row > header_row

IsColumnInsert(r, n) == r.api = "batchUpdate" /\ r = add_column(n)

IsHeaderWrite(r, n) ==
    /\ r.api = "values.update"
    /\ r = ValuesUpdate(index_to_col_letter(n), header_row, <<Str(ColumnName(n + 1))>>)

\* grounding named the target Column_<n+1> and set the create-first flag, and every
\* formula write comes after the insertion of column n and the write of its header
\* and goes to column n
CreatesThenWrites(n) ==
    /\ Get(instruction, "target_column") = Str(ColumnName(n + 1))
    /\ Get(instruction, "_auto_new_column") = Num(n)
    /\ \A i \in 1..Len(requests) : IsFormulaWrite(requests[i]) =>
          /\ requests[i].col = index_to_col_letter(n)
          /\ \E j \in 1..(i - 1), k \in 1..(i - 1) :
                /\ j < k
                /\ IsColumnInsert(requests[j], n)
                /\ IsHeaderWrite(requests[k], n)

\* C9: for a formula whose target is empty, blank or null on a sheet of n columns,
\* grounding sets target_column to Column_<n+1> and the create-first flag; the
\* dispatcher inserts the column and writes its header before any formula write,
\* and the formula goes into the new column and into no column that existed.
C9_BlankTargetCreatesColumn ==
    BlankTargetFormula => CreatesThenWrites(Len(schema))

\* The same, on sheets where no column is already called Column_<n+1>.
BlankTargetCreatesColumnWhenNameIsFree ==
    (BlankTargetFormula /\ ~InColumns(Str(ColumnName(Len(schema) + 1)), schema)) =>
        CreatesThenWrites(Len(schema))

\* a formula reached the sheet for a blank target
BlankTargetFormulaWritten ==
    /\ pc = "done"
    /\ BlankTargetFormula
    /\ result.exc = "none"
    /\ \E i \in 1..Len(requests) : IsFormulaWrite(requests[i])

\* the action execute() dispatched on
ActionIs(action) ==
    /\ pc = "done"
    /\ result.at = "dispatch"
    /\ Get(instruction, "action") = Str(action)

\* the 0-based indices of the rows below the first
RowIndices == 1..(Len(all_vals) - 1)

\* the 0-based index of the instruction's column
ColumnIndex == ListIndex(headers, instruction.d["column"]).val.n

\* row r has a cell in the instruction's column and the cell is a number
IsNumericRow(r) ==
    /\ ColumnIndex < Len(all_vals[r + 1])
    /\ ParseFloat(all_vals[r + 1][ColumnIndex + 1]).ok

CellValue(r) == ParseFloat(all_vals[r + 1][ColumnIndex + 1]).tenths

\* the value v (tenths) satisfies the rule
Satisfies(rule, v) ==
    IF Get(rule, "operator") = Str(s_between)
    THEN PyFloat(rule.d["min"]).tenths <= v /\ v <= PyFloat(rule.d["max"]).tenths
    ELSE Compare(Get(rule, "operator"), v, PyFloat(rule.d["value"]).tenths)

\* the requests of the one batchUpdate the branch made, none when it made none
Emitted == IF requests = <<>> THEN <<>> ELSE requests[1].reqs

\* the requests that colour row r
ColouringsOf(r) == {i \in 1..Len(Emitted) : Emitted[i].startRowIndex = r}

\* the rules of the instruction that the value of row r satisfies
SatisfiedBy(r) ==
    {i \in 1..Len(instruction.d["rules"].items) :
        Satisfies(instruction.d["rules"].items[i], CellValue(r))}

\* C14: color_number_range evaluates the rules in the order given, row by row:
\* a numeric row gets exactly one request, of the colour of the first rule its
\* value satisfies, whatever later rules it satisfies too; a row that satisfies no
\* rule gets no request.
C14_FirstMatchingRuleColours ==
    (ActionIs(act_color_number_range) /\ result.exc = "none") =>
        /\ Len(requests) <= 1
        /\ \A r \in RowIndices :
              IF IsNumericRow(r) /\ SatisfiedBy(r) # {}
              THEN \E i \in 1..Len(Emitted) :
                      /\ ColouringsOf(r) = {i}
                      /\ Emitted[i] =
                            RepeatCell(r, ColumnIndex,
                                ColorOf(Lower(instruction.d["rules"]
                                                .items[Min(SatisfiedBy(r))].d["color"].s)))
              ELSE ColouringsOf(r) = {}

\* C14 witness: 9.5 satisfies both rules of [>9 green, >=7 red] and was coloured
\* green.
C14_Witness ==
    /\ ActionIs(act_color_number_range)
    /\ result.exc = "none"
    /\ instruction.d["rules"].items = FirstWins
    /\ \E r \in RowIndices :
          /\ IsNumericRow(r)
          /\ CellValue(r) = 95
          /\ SatisfiedBy(r) = {1, 2}
          /\ \E i \in ColouringsOf(r) : Emitted[i].color = <<0, 100, 0>>

IsDedupe(r) == r.api = "batchUpdate" /\ r.reqs[1].req = "deleteDuplicates"

IsUnmerge(r) == r = unmerge_all

\* the calls of the log that satisfy P
CallsThat(P(_)) == {i \in 1..Len(requests) : P(requests[i])}

\* the service failed call number n
Failed(n) == \E i \in 1..Len(errors) : errors[i].req = n

FailedWithMergedCells(n) ==
    \E i \in 1..Len(errors) :
        errors[i].req = n /\ IsSubstr(S_MERGED_CELL, errors[i].message)

\* C15: duplicate removal is retried at most once and only after a merged-cell
\* failure.  When the first deleteDuplicates fails with a merged-cell error,
\* unmerge-all is issued next and then (unless unmerge-all itself failed, which
\* ends the invocation) exactly one more deleteDuplicates; when that second call
\* fails the error escapes and no further call is made.  A first failure of any
\* other kind escapes with no unmerge and no retry.  With no failure there is one
\* call.
C15_RetryOnceAfterMergedCells ==
    ActionIs(act_remove_duplicates) =>
        /\ Cardinality(CallsThat(IsDedupe)) <= 2
        /\ Cardinality(CallsThat(IsUnmerge)) <= 1
        /\ IF requests = <<>> THEN result.exc \in {"KeyError", "ValueError"}
           ELSE /\ IsDedupe(requests[1])
                /\ IF FailedWithMergedCells(1)
                   THEN /\ Len(requests) >= 2
                        /\ IsUnmerge(requests[2])
                        /\ IF Failed(2)
                           THEN Len(requests) = 2 /\ result.exc = "HttpError"
                           ELSE /\ Len(requests) = 3
                                /\ IsDedupe(requests[3])
                                /\ requests[3] = requests[1]
                                /\ Failed(3) <=> result.exc = "HttpError"
                                /\ ~Failed(3) <=> StatusOf(result) = Str(S_SUCCESS)
                   ELSE /\ Len(requests) = 1
                        /\ Failed(1) <=> result.exc = "HttpError"
                        /\ ~Failed(1) <=> StatusOf(result) = Str(S_SUCCESS)

\* C15 as stated: a merged-cell failure of the first deleteDuplicates is always
\* followed by unmerge-all and exactly one more deleteDuplicates.
C15_MergedFailureAlwaysRetried ==
    (ActionIs(act_remove_duplicates) /\ requests # <<>>) =>
        /\ Cardinality(CallsThat(IsDedupe)) <= 2
        /\ IF FailedWithMergedCells(1)
           THEN /\ Len(requests) = 3
                /\ IsUnmerge(requests[2])
                /\ IsDedupe(requests[3])
                /\ Failed(3) <=> result.exc = "HttpError"
           ELSE /\ Len(requests) = 1
                /\ Failed(1) <=> result.exc = "HttpError"

\* C15 witness: the first call failed on merged cells, the cells were unmerged,
\* and the one retry failed too: the error escaped after three calls.
C15_Witness ==
    /\ ActionIs(act_remove_duplicates)
    /\ Len(requests) = 3
    /\ FailedWithMergedCells(1)
    /\ IsUnmerge(requests[2])
    /\ Failed(3)
    /\ result.exc = "HttpError"

\* the rows a delete_rows request deletes
DeletedRows == {Emitted[i].startIndex : i \in 1..Len(Emitted)}

\* the rows a color_number_range request colours
ColouredRows == {Emitted[i].startRowIndex : i \in 1..Len(Emitted)}

\* C16: in delete_rows and in color_number_range a row whose cell is absent or no
\* number is passed over and every other row is still evaluated: nothing is raised
\* (only the service can fail the one call), and the rows deleted, or coloured,
\* are exactly the numeric rows that satisfy the condition, or some rule,
\* wherever the other rows are.
C16_BadRowsAreSkipped ==
    /\ ActionIs(act_delete_rows) =>
          /\ result.exc = "none" \/ (result.exc = "HttpError" /\ errors # <<>>)
          /\ DeletedRows =
                {r \in RowIndices :
                    /\ IsNumericRow(r)
                    /\ Compare(instruction.d["operator"], CellValue(r),
                               PyFloat(instruction.d["value"]).tenths)}
    /\ ActionIs(act_color_number_range) =>
          /\ result.exc = "none" \/ (result.exc = "HttpError" /\ errors # <<>>)
          /\ ColouredRows = {r \in RowIndices : IsNumericRow(r) /\ SatisfiedBy(r) # {}}

\* C16 witness: the first data row has no number (or no cell) in the column, the
\* second has one that satisfies the condition, and the second was deleted.
C16_Witness ==
    /\ ActionIs(act_delete_rows)
    /\ result.exc = "none"
    /\ Len(all_vals) = 3
    /\ ~IsNumericRow(1)
    /\ IsNumericRow(2)
    /\ DeletedRows = {2}

\* a call that changes the sheet
IsMutation(r) == r.api \in {"batchUpdate", "values.update"}

\* C17: an invocation issues at most one mutation request, whatever the action;
\* at most two on the duplicate-removal retry path.
C17_AtMostOneMutation ==
    pc = "done" =>
        Cardinality(CallsThat(IsMutation)) <=
            (IF Get(instruction, "action") = Str(act_remove_duplicates)
                /\ errors # <<>> THEN 2 ELSE 1)

\* the rows and columns a sortRange request covers
CoveredRows(sr) == {r \in 0..(MaxRows + 1) : sr.startRowIndex <= r /\ r < sr.endRowIndex}

CoveredColumns(sr) ==
    {c \in 0..(MaxCols + 1) : sr.startColumnIndex <= c /\ c < sr.endColumnIndex}

\* the rows of the sheet below the header row (the header row is row number
\* header_row, so its 0-based index is header_row - 1)
DataRowIndices == {r \in 0..(Len(all_vals) - 1) : r > header_row - 1}

SortOrder(ascending) == IF Truthy(ascending) THEN "ASCENDING" ELSE "DESCENDING"

\* C19: the sortRange of sort and of multicolumn_sort covers exactly the data
\* rows (all rows below the header row, for every header_row) and the columns
\* 0..len(headers); its keys are the indices, in the column list, of the grounded
\* columns, in the order given, each with its own direction.
C19_SortCoversDataRows ==
    /\ (ActionIs(act_sort) /\ requests # <<>>) =>
          /\ Len(requests) = 1
          /\ Len(Emitted) = 1
          /\ Emitted[1].req = "sortRange"
          /\ CoveredRows(Emitted[1]) = DataRowIndices
          /\ CoveredColumns(Emitted[1]) = 0..(Len(headers) - 1)
          /\ Len(Emitted[1].sortSpecs) = 1
          /\ headers[Emitted[1].sortSpecs[1].dimensionIndex + 1] = instruction.d["column"].s
          /\ Emitted[1].sortSpecs[1].dimensionIndex = ColumnIndex
          /\ Emitted[1].sortSpecs[1].sortOrder =
                SortOrder(IF Has(instruction, "ascending")
                          THEN instruction.d["ascending"] ELSE Bool(TRUE))
    /\ (ActionIs(act_multicolumn_sort) /\ requests # <<>>) =>
          /\ Len(requests) = 1
          /\ Len(Emitted) = 1
          /\ Emitted[1].req = "sortRange"
          /\ CoveredRows(Emitted[1]) = DataRowIndices
          /\ CoveredColumns(Emitted[1]) = 0..(Len(headers) - 1)
          /\ LET given == IF Has(instruction, "sort") THEN instruction.d["sort"].items
                          ELSE <<>>
             IN  /\ Len(Emitted[1].sortSpecs) = Len(given)
                 /\ \A i \in 1..Len(given) :
                       /\ Emitted[1].sortSpecs[i].dimensionIndex =
                             ListIndex(headers, given[i].d["column"]).val.n
                       /\ Emitted[1].sortSpecs[i].sortOrder =
                             SortOrder(given[i].d["ascending"])

\* C19 witness: a sort on two keys of a sheet whose header is in row 2 and that
\* has a data row below it.
C19_Witness ==
    /\ ActionIs(act_multicolumn_sort)
    /\ result.exc = "none"
    /\ header_row = 2
    /\ Len(all_vals) = 3
    /\ Len(Emitted[1].sortSpecs) = 2
    /\ CoveredRows(Emitted[1]) = {2}

\* the 0-based index of the row an A1 row range "n:n" names: row numbers of the
\* A1 notation start at 1 (a1_to_indexes: int(start_row) - 1)
A1RowIndex(range) ==
    DigitsToInt(SubSeq(range, 1, (CHOOSE i \in 1..Len(range) : range[i] = ":") - 1)) - 1

\* the integer the instruction carries under key
Carried(key) == PyInt(instruction.d[key]).n

CarriesIntegers(keys) ==
    \A key \in keys : Has(instruction, key) /\ PyInt(instruction.d[key]).ok

\* the one request of the first call
FirstRequest == requests[1].reqs[1]

\* C18: every position an action carries (position, row, new_position, from_row,
\* to_row) is taken as a 0-based index: the request the dispatcher emits addresses
\* the row or column of that index, in each of add_row, delete_row, color_row,
\* copy_row, move_row, add_column and move_column.
C18_PositionsAreZeroBased ==
    /\ (ActionIs(act_add_row) /\ CarriesIntegers({"position"})) =>
          /\ requests # <<>>
          /\ FirstRequest.dimension = "ROWS"
          /\ FirstRequest.startIndex = Carried("position")
    /\ (ActionIs(act_delete_row) /\ CarriesIntegers({"row"})) =>
          /\ requests # <<>>
          /\ FirstRequest.dimension = "ROWS"
          /\ FirstRequest.startIndex = Carried("row")
    /\ (ActionIs(act_color_row) /\ CarriesIntegers({"row"})) =>
          /\ requests # <<>>
          /\ FirstRequest.startRowIndex = Carried("row")
          /\ FirstRequest.endRowIndex = Carried("row") + 1
    /\ (ActionIs(act_copy_row) /\ CarriesIntegers({"from_row", "to_row"})) =>
          /\ requests # <<>>
          /\ A1RowIndex(requests[1].range) = Carried("from_row")
          /\ Len(requests) = 2 => A1RowIndex(requests[2].range) = Carried("to_row")
    /\ (ActionIs(act_move_row) /\ CarriesIntegers({"from_row", "to_row"})) =>
          /\ requests # <<>>
          /\ FirstRequest.dimension = "ROWS"
          /\ FirstRequest.startIndex = Carried("from_row")
          /\ FirstRequest.destinationIndex = Carried("to_row")
    /\ (ActionIs(act_add_column) /\ CarriesIntegers({"position"})) =>
          /\ requests # <<>>
          /\ FirstRequest.dimension = "COLUMNS"
          /\ FirstRequest.startIndex = Carried("position")
          /\ Len(requests) = 2 =>
                requests[2].col = index_to_col_letter(Carried("position"))
    /\ (ActionIs(act_move_column) /\ CarriesIntegers({"new_position"})) =>
          /\ requests # <<>>
          /\ FirstRequest.dimension = "COLUMNS"
          /\ FirstRequest.destinationIndex = Carried("new_position")

\* the five branches that hand the position to an insert, delete or move of a
\* dimension do take it as a 0-based index
DimensionPositionsAreZeroBased ==
    /\ (ActionIs(act_add_row) /\ CarriesIntegers({"position"})) =>
          /\ requests # <<>>
          /\ FirstRequest.dimension = "ROWS"
          /\ FirstRequest.startIndex = Carried("position")
    /\ (ActionIs(act_delete_row) /\ CarriesIntegers({"row"})) =>
          /\ requests # <<>>
          /\ FirstRequest.dimension = "ROWS"
          /\ FirstRequest.startIndex = Carried("row")
    /\ (ActionIs(act_move_row) /\ CarriesIntegers({"from_row", "to_row"})) =>
          /\ requests # <<>>
          /\ FirstRequest.dimension = "ROWS"
          /\ FirstRequest.startIndex = Carried("from_row")
          /\ FirstRequest.destinationIndex = Carried("to_row")
    /\ (ActionIs(act_add_column) /\ CarriesIntegers({"position"})) =>
          /\ requests # <<>>
          /\ FirstRequest.dimension = "COLUMNS"
          /\ FirstRequest.startIndex = Carried("position")
          /\ Len(requests) = 2 =>
                requests[2].col = index_to_col_letter(Carried("position"))
    /\ (ActionIs(act_move_column) /\ CarriesIntegers({"new_position"})) =>
          /\ requests # <<>>
          /\ FirstRequest.dimension = "COLUMNS"
          /\ FirstRequest.destinationIndex = Carried("new_position")

\* copy_row puts from_row and to_row into A1 ranges, where they are row numbers:
\* the rows addressed have the 0-based indices from_row - 1 and to_row - 1
CopyRowTakesRowNumbers ==
    (ActionIs(act_copy_row) /\ CarriesIntegers({"from_row", "to_row"})) =>
        /\ requests # <<>>
        /\ A1RowIndex(requests[1].range) = Carried("from_row") - 1
        /\ Len(requests) = 2 => A1RowIndex(requests[2].range) = Carried("to_row") - 1

\* color_row with an integer row emits nothing: "n:n" has no column letters
ColorRowOfIntegerRaises ==
    (ActionIs(act_color_row) /\ CarriesIntegers({"row"})) =>
        requests = <<>> /\ result.exc = "AttributeError"

\* the oracle's answer decoded to {action: sort, column: "cgpa", ascending: false}
\* on the sheet with the columns Roll No, Name, CGPA
SortByCgpaAsked ==
    /\ schema = StudentColumns
    /\ raw # <<>>
    /\ parse_instruction_llm(raw) =
          Rec(act_sort, ("column" :> Str(s_cgpa)) @@ ("ascending" :> Bool(FALSE)))

\* C20: end to end, with the columns ["Roll No", "Name", "CGPA"] and the decoded
\* action {action: sort, column: "cgpa", ascending: false}, grounding rewrites the
\* column to "CGPA" (and nothing else), and the dispatcher emits exactly one
\* request, a sortRange with the one key of index 2, DESCENDING, over the columns
\* 0..3.
C20_SortByCgpaEndToEnd ==
    /\ (SortByCgpaAsked /\ (pc \in {"read", "dispatch"}
                            \/ (pc = "done" /\ result.at \in {"read", "dispatch"}))) =>
          instruction =
             Rec(act_sort, ("column" :> Str(s_CGPA)) @@ ("ascending" :> Bool(FALSE)))
    /\ (SortByCgpaAsked /\ pc = "done") => result.at \in {"read", "dispatch"}
    /\ (SortByCgpaAsked /\ pc = "done" /\ result.at = "dispatch") =>
          /\ Len(requests) = 1
          /\ requests[1].api = "batchUpdate"
          /\ Len(requests[1].reqs) = 1
          /\ requests[1].reqs[1].req = "sortRange"
          /\ requests[1].reqs[1].sortSpecs =
                <<[dimensionIndex |-> 2, sortOrder |-> "DESCENDING"]>>
          /\ requests[1].reqs[1].startColumnIndex = 0
          /\ requests[1].reqs[1].endColumnIndex = 3
          /\ result.exc \in {"none", "HttpError"}
          /\ result.exc = "none" =>
                /\ StatusOf(result) = Str(S_SUCCESS)
                /\ result.val.d["column"] = Str(s_CGPA)

\* C20 witness: the sort by "cgpa" went through and the request was sent.
C20_Witness ==
    /\ SortByCgpaAsked
    /\ pc = "done"
    /\ result.exc = "none"
    /\ requests # <<>>
    /\ instruction.d["column"] = Str(s_CGPA)

\* C21: a target verbatim equal to one of the candidates is what
\* fuzzy_match_column returns, for every candidate list.
C21_VerbatimCandidateReturned ==
    (pc = "return" /\ InColumns(target, headers)) => ret = Return(target)

\* the candidates that are the target up to case
SameUpToCase == {i \in 1..Len(headers) : Lower(headers[i]) = Lower(target.s)}

\* A verbatim candidate is returned when the target is not empty and no other
\* candidate is the target up to case.
VerbatimReturnedWhenUnambiguous ==
    (/\ pc = "return"
     /\ InColumns(target, headers)
     /\ target.s # <<>>
     /\ \A i \in SameUpToCase : headers[i] = target.s) => ret = Return(target)

\* the resolver is reached before anything else can fail: a simple reference key
\* other than "to" holds a string (no string is a member of an empty list)
ResolverCalledFirst(ins) ==
    ins.k = "dict" /\ \E key \in {"column", "old_name", "from"} :
                          Has(ins, key) /\ IsStr(ins.d[key])

\* C22: with an empty candidate list fuzzy_match_column raises the
\* empty-candidate error (ValueError), whatever the target, and ground_columns
\* lets it through: grounding an instruction that needs the resolver against no
\* columns ends in that error, not in a grounded instruction.
C22_EmptyCandidatesRaise ==
    headers = <<>> =>
        /\ \A t \in RefStrings :
              fuzzy_match_column(Str(t), headers, wratio) = Raise("ValueError")
        /\ (pc = "grounded" /\ ResolverCalledFirst(instruction)) =>
              grounded = Raise("ValueError")

\* C22 witness: an instruction naming a column was grounded against no columns
\* and the error came out of ground_columns.
C22_Witness ==
    /\ pc = "grounded"
    /\ headers = <<>>
    /\ ResolverCalledFirst(instruction)
    /\ grounded.exc = "ValueError"

\* C23: the header list read at the start of an invocation is never mutated
\* during it: at every later step of execute(), and in its final state, the list
\* has the contents and the length it was read with.
C23_SchemaNeverMutated ==
    pc \in {"parse", "ground", "read", "dispatch", "done"} =>
        /\ headers = schema
        /\ Len(headers) = Len(schema)

\* the stages of an invocation, in the order of the code
StageOrder == <<"start", "headers", "parse", "ground", "read", "dispatch", "done">>

StageOf(p) == CHOOSE i \in 1..Len(StageOrder) : StageOrder[i] = p

\* the locals of execute() are those of a call that has just started
FreshLocals ==
    /\ headers = <<>>
    /\ schema = <<>>
    /\ instruction = Null
    /\ raw = <<>>
    /\ num_rows = 0
    /\ requests = <<>>
    /\ errors = <<>>
    /\ all_vals = <<>>
    /\ result = NoResult

\* nothing has been sent to the service while the invocation has not reached
\* the dispatcher
NothingSentBeforeDispatch ==
    pc \in {"start", "headers", "parse", "ground", "read"} => requests = <<>>

\* an invocation over before the dispatcher's branches, or in its else branch,
\* has sent nothing
EarlyEndSentNothing ==
    (pc = "done" /\ result.at \in {"connect", "metadata", "headers", "oracle",
                                   "parse", "ground", "read", "unknown"})
        => requests = <<>>

\* a decoded text carrying "_error" is not grounded, read for or dispatched
ParseErrorEndsInvocation ==
    pc \in {"ground", "read", "dispatch"} =>
        ~(instruction.k = "dict" /\ Has(instruction, "_error"))

\* a step goes to the next stage or ends the invocation; after the end a new
\* invocation starts with fresh locals
StageStep ==
    \/ pc # "done" /\ pc' = "done"
    \/ pc # "done" /\ StageOf(pc') = StageOf(pc) + 1
    \/ pc = "done" /\ pc' = "start" /\ FreshLocals'

\* C24: an invocation goes through schema read, oracle parse, grounding,
\* dispatch and the terminal result in this order; no request is issued before
\* grounding has completed, so an invocation ending in a parse error or an
\* unknown-action error issued none; the next invocation starts from fresh locals
\* (the agent keeps its authenticated client, nothing of the invocation).
C24_StagesInOrder ==
    /\ [](NothingSentBeforeDispatch /\ EarlyEndSentNothing /\ ParseErrorEndsInvocation)
    /\ [][StageStep]_vars

\* C24 witness: an invocation ended in the parse error, having sent nothing,
\* with the client connected.
C24_Witness ==
    /\ pc = "done"
    /\ result.at = "parse"
    /\ Get(result.val, "message") = Str(S_FAILED_TO_PARSE)
    /\ requests = <<>>
    /\ service

\* a second invocation has started after one that reached the service
SecondInvocationStarted == pc = "start" /\ service /\ FreshLocals

\* a success result: status, the action kind dispatched, a response field
IsSuccessShape(r) ==
    /\ r.k = "dict"
    /\ Get(r, "status") = Str(S_SUCCESS)
    /\ Get(r, "action") = Get(instruction, "action")
    /\ Has(r, "response")

\* an error result: status and a message string
IsErrorShape(r) ==
    /\ r.k = "dict"
    /\ Get(r, "status") = Str(S_ERROR)
    /\ IsStr(Get(r, "message"))

\* C25: every result execute() returns is a success result carrying status, the
\* action kind dispatched and a response field, or an error result carrying
\* status and a message string.
C25_ResultShapes ==
    (pc = "done" /\ result.exc = "none") =>
        IsSuccessShape(result.val) \/ IsErrorShape(result.val)

\* Every returned result other than the formula branch's has one of the two
\* shapes.
ResultShapesButFormula ==
    (pc = "done" /\ result.exc = "none"
        /\ Get(instruction, "action") # Str(act_formula)) =>
        IsSuccessShape(result.val) \/ IsErrorShape(result.val)

\* the triple the colour table gives a name: its entry, yellow for a name it lacks
TableColour(name) ==
    IF name \in DOMAIN COLOR_MAP THEN COLOR_MAP[name] ELSE <<100, 100, 0>>

\* the colours the rules of the instruction name, as the table gives them
RuleColours ==
    {TableColour(Lower(RuleColor(instruction.d["rules"].items[i]).s)) :
        i \in 1..Len(instruction.d["rules"].items)}

\* C26: in every colour action the colour of each request is the one the colour
\* table gives the (lower-cased) name of the instruction: its fixed triple for a
\* name of the table, yellow (1, 1, 0) for any other name, and looking a name up
\* never fails (a colour action with a colour name raises nothing but what the
\* service answers).
C26_ColourTable ==
    /\ (ActionIs(act_color_range) /\ IsStr(Get(instruction, "color"))) =>
          /\ result.exc \in {"none", "HttpError"}
          /\ Len(requests) = 1
          /\ \A i \in 1..Len(Emitted) :
                Emitted[i].color = TableColour(Lower(instruction.d["color"].s))
    /\ (ActionIs(act_color_if) /\ IsStr(Get(instruction, "color"))
            /\ InColumns(Get(instruction, "column"), headers)) =>
          /\ result.exc \in {"none", "HttpError"}
          /\ \A i \in 1..Len(Emitted) :
                Emitted[i].color = TableColour(Lower(instruction.d["color"].s))
    /\ (ActionIs(act_color_multi) /\ result.exc = "none") =>
          \A i \in 1..Len(Emitted) : Emitted[i].color \in RuleColours
    /\ (ActionIs(act_color_number_range) /\ result.exc = "none") =>
          \A i \in 1..Len(Emitted) : Emitted[i].color \in RuleColours

\* C26 witness: color_range was asked for a colour the table lacks and the range
\* was coloured yellow, with success.
C26_Witness ==
    /\ ActionIs(act_color_range)
    /\ instruction.d["color"] = Str(s_teal)
    /\ result.exc = "none"
    /\ Len(Emitted) = 1
    /\ Emitted[1].color = <<100, 100, 0>>

\* every name of the table was asked for and its triple emitted
EveryTableColourEmitted(name) ==
    /\ ActionIs(act_color_range)
    /\ instruction.d["color"] = Str(name)
    /\ result.exc = "none"
    /\ Emitted[1].color = COLOR_MAP[name]

LightblueEmitted == EveryTableColourEmitted(s_lightblue) /\ Emitted[1].color = <<70, 85, 100>>

\* the 0-based rows and columns of the cells an A1 range names
NamedCells(a1) ==
    CASE a1 = s_range  -> [rows |-> 1..9, cols |-> 0..2]    \* A2:C10
      [] a1 = s_column -> [rows |-> 0..4, cols |-> {0}]     \* A1:A5

\* the rows and columns of a grid range: start inclusive, end exclusive
GridRows(rq) == rq.startRowIndex..(rq.endRowIndex - 1)

GridColumns(rq) == rq.startColumnIndex..(rq.endColumnIndex - 1)

\* color_range or merge_cells sent its request for one of the ranges above
RangeRequested ==
    /\ ActionIs(act_color_range) \/ ActionIs(act_merge_cells)
    /\ Get(instruction, "range") \in {Str(s_range), Str(s_column)}
    /\ requests # <<>>

\* C27: the grid range color_range and merge_cells emit for an A1 range covers
\* exactly the cells the range names: its rows and its columns, the last named
\* column included, a single-column range covering that column.
C27_RangeCoversNamedCells ==
    RangeRequested =>
        /\ Len(Emitted) = 1
        /\ GridRows(Emitted[1]) = NamedCells(instruction.d["range"].s).rows
        /\ GridColumns(Emitted[1]) = NamedCells(instruction.d["range"].s).cols

\* The rows of the emitted grid range are those the A1 range names.
RangeCoversNamedRows ==
    RangeRequested =>
        GridRows(Emitted[1]) = NamedCells(instruction.d["range"].s).rows

\* The columns of the emitted grid range are the named ones but the last.
RangeLosesLastColumn ==
    RangeRequested =>
        LET cols == NamedCells(instruction.d["range"].s).cols
        IN  GridColumns(Emitted[1]) = cols \ {MaxOf(cols)}

\* the oracle asked for column C to be coloured
ColumnCAsked ==
    /\ Answered
    /\ Decoded.k = "dict"
    /\ Get(Decoded, "action") = Str(act_color_column)
    /\ Get(Decoded, "column") = Str(s_C)

\* C28: color_row with row r, and color_column with column letter L, end with a
\* success result (unless the service fails the call) after one colour request
\* that covers row r, respectively the column lettered L; the letter is the one
\* the oracle gave when the dispatcher runs.
C28_WholeRowOrColumnColoured ==
    /\ (ActionIs(act_color_row) /\ Get(instruction, "row") = Num(2)) =>
          /\ result.exc \in {"none", "HttpError"}
          /\ Len(requests) = 1
          /\ GridRows(Emitted[1]) = {1}
    /\ (ColumnCAsked /\ pc \in {"read", "dispatch"}) =>
          Get(instruction, "column") = Str(s_C)
    /\ (ColumnCAsked /\ ActionIs(act_color_column)) =>
          /\ result.exc \in {"none", "HttpError"}
          /\ Len(requests) = 1
          /\ GridColumns(Emitted[1]) = {2}

\* color_column of a letter sends nothing: the letter was replaced by a header
\* name in grounding and the range built from it has no row number.
ColorColumnOfLetterRaises ==
    (ColumnCAsked /\ ActionIs(act_color_column)) =>
        /\ result.exc = "AttributeError"
        /\ requests = <<>>
        /\ InColumns(Get(instruction, "column"), headers)

\* the actions that scan the rows of all_vals
RowScanning ==
    {Str(act_delete_rows), Str(act_color_if), Str(act_color_multi),
     Str(act_color_number_range)}

\* the 0-based row a request deletes or colours
RowOf(rq) == IF rq.req = "deleteDimension" THEN rq.startIndex ELSE rq.startRowIndex

\* a row-scanning action sent its request
ScanEmitted ==
    /\ pc = "done"
    /\ result.at = "dispatch"
    /\ Get(instruction, "action") \in RowScanning
    /\ requests # <<>>

\* C29: whatever header_row and the sheet are, the row-scanning actions delete
\* or colour only rows below the header row: every row index emitted is greater
\* than the 0-based index of the header row.
C29_HeaderRowUntouched ==
    ScanEmitted => \A i \in 1..Len(Emitted) : RowOf(Emitted[i]) > header_row - 1

\* With the header in the first row of the sheet nothing at or above it is
\* deleted or coloured.
FirstRowUntouched ==
    ScanEmitted => \A i \in 1..Len(Emitted) : RowOf(Emitted[i]) > 0

\* the header row itself was coloured by color_if, the header being in row 2
HeaderRowColoured ==
    /\ ScanEmitted
    /\ header_row = 2
    /\ Get(instruction, "action") = Str(act_color_if)
    /\ all_vals[2] = headers
    /\ \E i \in 1..Len(Emitted) : RowOf(Emitted[i]) = 1

\* row r has a cell in column col (0-based) that is text, up to case and
\* surrounding blanks
CellIs(r, col, text) ==
    /\ col < Len(all_vals[r + 1])
    /\ Lower(Strip(all_vals[r + 1][col + 1])) = Lower(text)

\* a rule of color_multi the loop can evaluate
WellFormedRule(rule) ==
    /\ rule.k = "dict"
    /\ InColumns(Get(rule, "column"), headers)
    /\ Has(rule, "equals")
    /\ IsStr(Get(rule, "color"))

\* the rows that match a rule of color_multi
RuleRows(rule) ==
    {r \in RowIndices :
        CellIs(r, ListIndex(headers, rule.d["column"]).val.n, PyStr(rule.d["equals"]))}

\* no scanned row satisfies the condition of the action the dispatcher ran
NoRowSatisfies ==
    CASE ActionIs(act_delete_rows) ->
            /\ InColumns(Get(instruction, "column"), headers)
            /\ {r \in RowIndices :
                  /\ IsNumericRow(r)
                  /\ Compare(instruction.d["operator"], CellValue(r),
                             PyFloat(instruction.d["value"]).tenths)} = {}
      [] ActionIs(act_color_if) ->
            /\ InColumns(Get(instruction, "column"), headers)
            /\ Has(instruction, "equals")
            /\ IsStr(Get(instruction, "color"))
            /\ {r \in RowIndices :
                  CellIs(r, ColumnIndex, PyStr(instruction.d["equals"]))} = {}
      [] ActionIs(act_color_multi) ->
            /\ Get(instruction, "rules").k = "list"
            /\ \A i \in 1..Len(instruction.d["rules"].items) :
                  /\ WellFormedRule(instruction.d["rules"].items[i])
                  /\ RuleRows(instruction.d["rules"].items[i]) = {}
      [] ActionIs(act_color_number_range) ->
            /\ InColumns(Get(instruction, "column"), headers)
            /\ {r \in RowIndices : IsNumericRow(r) /\ SatisfiedBy(r) # {}} = {}
      [] OTHER -> FALSE

NothingDeleted ==
    /\ ActionIs(act_delete_rows)
    /\ NoRowSatisfies
    /\ Len(all_vals) > header_row
    /\ requests = <<>>
    /\ Get(result.val, "deleted_count") = Num(0)

\* delete_rows deleted two rows and counted them
TwoDeleted ==
    /\ ActionIs(act_delete_rows)
    /\ result.exc = "none"
    /\ Len(Emitted) = 2
    /\ Get(result.val, "deleted_count") = Num(2)

\* color_multi and color_number_range found no row and sent nothing
NothingColouredByRules(action) ==
    /\ ActionIs(action)
    /\ NoRowSatisfies
    /\ Len(all_vals) > header_row
    /\ Len(instruction.d["rules"].items) > 0
    /\ requests = <<>>

NothingColouredByMulti == NothingColouredByRules(act_color_multi)

NothingColouredByNumberRange == NothingColouredByRules(act_color_number_range)

====
